---- MODULE Spec2Model ----
(***************************************************************************)
(* mp++ `real`: the precision-propagation and resource-stealing protocol   *)
(* of the n-ary operation engine (include/mp++/real.hpp), together with    *)
(* the constructors, assignments, precision setters and the destructor of  *)
(* src/real.cpp that the engine relies on.                                 *)
(*                                                                         *)
(* A run of the model is a client scope holding the reals x, y and z: the  *)
(* scope constructs them (any precision, any value), may move one out,     *)
(* performs one operation of the library (recorded in `last` together with *)
(* the objects as they were when it was called) and leaves the scope,      *)
(* which destroys every object.  Every configuration of live, moved-from   *)
(* and unconstructed objects is produced by the set-up steps, so an        *)
(* operation is examined from every state a longer run could reach.        *)
(***************************************************************************)
EXTENDS Integers, Sequences, FiniteSets, TLC

(***************************************************************************)
(* Bounds of the model.                                                    *)
(***************************************************************************)
\* the largest precision of the model: stands for real_prec_max()
MaxPrec == 2
\* values of magnitude 2^EMax and above overflow to an infinity
EMax == 2
\* the native values handed to constructors and assignments are 0..MaxInit
MaxInit == 2
\* calls a thread makes to the default-precision functions
MaxCalls == 2
\* width in bits of long and unsigned long, scaled to the values of the model
LongBits == 1

(***************************************************************************)
(* Precision limits (mp++/detail/mpfr.hpp).                                *)
(***************************************************************************)
real_prec_min == 1
real_prec_max == MaxPrec
real_prec_check(p) == p >= real_prec_min /\ p <= real_prec_max

\* nl_digits<int>(): value bits of the native int
IntDigits == 31
\* nl_digits<bool>()
BoolDigits == 1

c_max(a, b) == IF a > b THEN a ELSE b

(***************************************************************************)
(* Values: a finite number, a NaN or a signed infinity.                    *)
(***************************************************************************)
Fin(n) == [k |-> "fin", n |-> n]
NaN == [k |-> "nan", n |-> 0]
Inf(s) == [k |-> "inf", n |-> s]

Abs(n) == IF n < 0 THEN -n ELSE n
Sgn(n) == IF n < 0 THEN -1 ELSE 1

RECURSIVE Pow2(_)
Pow2(e) == IF e <= 0 THEN 1 ELSE 2 * Pow2(e - 1)

\* number of binary digits of m >= 0
RECURSIVE BitLen(_)
BitLen(m) == IF m = 0 THEN 0 ELSE 1 + BitLen(m \div 2)

\* m >= 0 rounded to p significant bits, to nearest, ties to even (MPFR_RNDN)
RoundMag(m, p) ==
    IF BitLen(m) <= p THEN m
    ELSE LET sh == BitLen(m) - p
             q == m \div Pow2(sh)
             r == m % Pow2(sh)
             half == Pow2(sh - 1)
             up == r > half \/ (r = half /\ q % 2 = 1)
         IN  (IF up THEN q + 1 ELSE q) * Pow2(sh)

\* the exact result n stored at precision p: rounded, then checked for overflow
RoundOv(n, p) ==
    LET m == RoundMag(Abs(n), p)
    IN  IF m >= Pow2(EMax) THEN Inf(Sgn(n)) ELSE Fin(Sgn(n) * m)

\* a value stored at precision p (mpfr_set, mpfr_prec_round)
RoundVal(v, p) == IF v.k = "fin" THEN RoundOv(v.n, p) ELSE v

NegVal(v) == IF v.k = "nan" THEN v ELSE [v EXCEPT !.n = -v.n]

mpfr_add(a, b, p) ==
    IF a.k = "nan" \/ b.k = "nan" THEN NaN
    ELSE IF a.k = "inf" /\ b.k = "inf" THEN (IF a.n = b.n THEN a ELSE NaN)
    ELSE IF a.k = "inf" THEN a
    ELSE IF b.k = "inf" THEN b
    ELSE RoundOv(a.n + b.n, p)

mpfr_sub(a, b, p) == mpfr_add(a, NegVal(b), p)

mpfr_mul(a, b, p) ==
    IF a.k = "nan" \/ b.k = "nan" THEN NaN
    ELSE IF a.k = "inf" \/ b.k = "inf"
         THEN (IF a.n = 0 \/ b.n = 0 THEN NaN ELSE Inf(Sgn(a.n) * Sgn(b.n)))
    ELSE RoundOv(a.n * b.n, p)

\* finite quotients are modelled where they are integers (see PrimDefined)
mpfr_div(a, b, p) ==
    IF a.k = "nan" \/ b.k = "nan" THEN NaN
    ELSE IF a.k = "inf" THEN (IF b.k = "inf" THEN NaN ELSE Inf(Sgn(a.n) * Sgn(b.n)))
    ELSE IF b.k = "inf" THEN Fin(0)
    ELSE IF b.n = 0 THEN (IF a.n = 0 THEN NaN ELSE Inf(Sgn(a.n)))
    ELSE RoundOv(Sgn(a.n) * Sgn(b.n) * (Abs(a.n) \div Abs(b.n)), p)

\* 2^a, modelled for a >= 0 (see PrimDefined)
mpfr_exp2(a, p) ==
    IF a.k = "nan" THEN NaN
    ELSE IF a.k = "inf" THEN (IF a.n > 0 THEN a ELSE Fin(0))
    ELSE IF a.n >= EMax THEN Inf(1)
    ELSE RoundOv(Pow2(a.n), p)

BinFuncs == {"add", "sub", "mul", "div"}
UnFuncs == {"exp2"}

\* the MPFR primitive f applied to the values vs, the result stored at precision p
Prim(f, vs, p) ==
    CASE f = "add" -> mpfr_add(vs[1], vs[2], p)
      [] f = "sub" -> mpfr_sub(vs[1], vs[2], p)
      [] f = "mul" -> mpfr_mul(vs[1], vs[2], p)
      [] f = "div" -> mpfr_div(vs[1], vs[2], p)
      [] f = "exp2" -> mpfr_exp2(vs[1], p)

\* the inputs on which the model computes f exactly
PrimDefined(f, vs) ==
    CASE f = "div" -> (vs[1].k = "fin" /\ vs[2].k = "fin" /\ vs[2].n # 0)
                          => Abs(vs[1].n) % Abs(vs[2].n) = 0
      [] f = "exp2" -> vs[1].k = "fin" => vs[1].n >= 0
      [] OTHER -> TRUE

(***************************************************************************)
(* Objects and storage.  A real is its mpfr_struct_t: the significand      *)
(* pointer d (0 is nullptr, the moved-from mark), the precision and the    *)
(* value.  heap is the set of significand buffers currently allocated.     *)
(***************************************************************************)
Null == "null"
\* the client's reals
Objs == {"x", "y", "z"}
\* r: the object initialised from a returned value; t: the temporary of a chained expression
AllObjs == Objs \cup {"r", "t"}
BufIds == 1..Cardinality(AllObjs)

Dead == [alive |-> FALSE, d |-> 0, prec |-> 0, val |-> NaN]

\* what the code did during one operation: allocations, releases, precision
\* changes of existing storage, swaps, the engine branch taken, a release of
\* storage that was not allocated, a use of a null significand
NoStats ==
    [alloc |-> 0, free |-> 0, realloc |-> 0, swap |-> 0, br |-> "none",
     badfree |-> FALSE, ub |-> FALSE]

\* the state the library code works on: objects, heap, and what the code did
Machine(o, h) == [objs |-> o, heap |-> h, st |-> NoStats]

IsLive(M, o) == M.objs[o].alive /\ M.objs[o].d # 0
IsMovedFrom(M, o) == M.objs[o].alive /\ M.objs[o].d = 0

MinFree(h) == CHOOSE b \in BufIds \ h : \A c \in BufIds \ h : b <= c

\* mpfr_init2: allocate a significand for p bits; the value is NaN
mpfr_init2(M, o, p) ==
    LET b == MinFree(M.heap)
    IN  [M EXCEPT !.objs[o] = [alive |-> TRUE, d |-> b, prec |-> p, val |-> NaN],
                  !.heap = @ \cup {b},
                  !.st.alloc = @ + 1]

\* mpfr_clear: release the significand
mpfr_clear(M, o) ==
    LET b == M.objs[o].d
    IN  [M EXCEPT !.heap = @ \ {b},
                  !.st.free = @ + 1,
                  !.st.badfree = @ \/ b \notin M.heap]

\* mpfr_set: copy a value, rounding it to the destination's precision
mpfr_set(M, o, v) ==
    [M EXCEPT !.objs[o].val = RoundVal(v, M.objs[o].prec),
              !.st.ub = @ \/ M.objs[o].d = 0]

get_prec(M, o) == M.objs[o].prec

\* real::set_prec_impl: mpfr_set_prec, the value becomes NaN
set_prec_impl(M, o, p) ==
    [M EXCEPT !.objs[o].prec = p,
              !.objs[o].val = NaN,
              !.st.realloc = @ + (IF p # M.objs[o].prec THEN 1 ELSE 0),
              !.st.ub = @ \/ M.objs[o].d = 0]

\* a precision change that discards the value where it must be kept
prec_round_impl_destructive(M, o, p) == set_prec_impl(M, o, p)

\* real::prec_round_impl: mpfr_prec_round, the value is kept (rounded when p shrinks)
prec_round_impl(M, o, p) ==
    [M EXCEPT !.objs[o].prec = p,
              !.objs[o].val = RoundVal(@, p),
              !.st.realloc = @ + (IF p # M.objs[o].prec THEN 1 ELSE 0),
              !.st.ub = @ \/ M.objs[o].d = 0]

\* a swap that exchanges the significands but leaves the precisions behind
swap_pointers_only(M, a, b) ==
    [M EXCEPT !.objs[a].d = M.objs[b].d, !.objs[b].d = M.objs[a].d,
              !.objs[a].val = M.objs[b].val, !.objs[b].val = M.objs[a].val,
              !.st.swap = @ + 1]

\* swap(real &, real &): mpfr_swap exchanges the whole structs
swap(M, a, b) ==
    [M EXCEPT !.objs[a] = M.objs[b], !.objs[b] = M.objs[a], !.st.swap = @ + 1]

\* a destructor that releases without looking at the moved-from mark
destroy_unconditional(M, o) == [mpfr_clear(M, o) EXCEPT !.objs[o] = Dead]

\* real::~real(): release the significand unless the object is moved-from
destroy(M, o) ==
    IF M.objs[o].d # 0
    THEN [mpfr_clear(M, o) EXCEPT !.objs[o] = Dead]
    ELSE [M EXCEPT !.objs[o] = Dead]

\* a move constructor that forgets to mark its source
move_construct_no_mark(M, o, other) == [M EXCEPT !.objs[o] = M.objs[other]]

\* real::real(real &&other): shallow copy, other is marked moved-from
move_construct(M, o, other) ==
    [M EXCEPT !.objs[o] = M.objs[other],
              !.objs[other].d = 0,
              !.objs[other].val = NaN]

\* real::real(const ptag &, p, true): storage for p bits, no precision check
ptag_construct(M, o, p) == mpfr_init2(M, o, p)

\* real::real(const real &other): deep copy at other's precision
copy_construct(M, o, other) ==
    LET M1 == mpfr_init2(M, o, get_prec(M, other))
    IN  [mpfr_set(M1, o, M.objs[other].val) EXCEPT !.st.ub = @ \/ M.objs[other].d = 0]

(***************************************************************************)
(* N-ary operation engine (real.hpp, namespace detail).  An operand is an  *)
(* object name with a category: TRUE for a non-const rvalue reference      *)
(* (is_ncrvr), from which resources may be stolen, FALSE otherwise.  The   *)
(* pair p is <first: the candidate for stealing or Null, second: the       *)
(* largest precision seen>.                                                *)
(***************************************************************************)
\* an initial pair that starts from min_prec alone
mpfr_nary_op_init_pair_min_only(M, min_prec, arg, ncrvr) ==
    [first |-> IF ncrvr THEN arg ELSE Null,
     second |-> c_max(real_prec_min, min_prec)]

mpfr_nary_op_init_pair(M, min_prec, arg, ncrvr) ==
    [first |-> IF ncrvr THEN arg ELSE Null,
     second |-> c_max(get_prec(M, arg), min_prec)]

\* an overload that leaves the largest precision as it was
check_steal_borrowed_no_max(M, p, arg0) == p

\* mpfr_nary_op_check_steal, arg0 not a non-const rvalue: only the precision counts
check_steal_borrowed(M, p, arg0) ==
    [p EXCEPT !.second = c_max(get_prec(M, arg0), p.second)]

\* an overload that takes the later candidate on equal precisions
check_steal_donatable_last_wins(M, p, arg0) ==
    LET prec0 == get_prec(M, arg0)
    IN  [first |-> IF p.first = Null \/ prec0 >= get_prec(M, p.first) THEN arg0 ELSE p.first,
         second |-> c_max(prec0, p.second)]

\* mpfr_nary_op_check_steal, arg0 a non-const rvalue: arg0 is the new candidate
\* when it is the first one or has a larger precision than the current one
check_steal_donatable(M, p, arg0) ==
    LET prec0 == get_prec(M, arg0)
    IN  [first |-> IF p.first = Null \/ prec0 > get_prec(M, p.first) THEN arg0 ELSE p.first,
         second |-> c_max(prec0, p.second)]

RECURSIVE mpfr_nary_op_check_steal(_, _, _, _)
mpfr_nary_op_check_steal(M, p, args, cats) ==
    IF args = << >> THEN p
    ELSE mpfr_nary_op_check_steal(
             M,
             IF Head(cats) THEN check_steal_donatable(M, p, Head(args))
                           ELSE check_steal_borrowed(M, p, Head(args)),
             Tail(args), Tail(cats))

\* the pair after all the operands have been examined
nary_pair(M, min_prec, args, cats) ==
    mpfr_nary_op_check_steal(
        M, mpfr_nary_op_init_pair(M, min_prec, Head(args), Head(cats)),
        Tail(args), Tail(cats))

\* mpfr_nary_func_wrapper: f(out, args..., MPFR_RNDN); MPFR reads the operands
\* before it writes the result, so out may be one of them
mpfr_nary_func_wrapper(M, f, out, args) ==
    [M EXCEPT !.objs[out].val =
                  Prim(f, [i \in DOMAIN args |-> M.objs[args[i]].val], M.objs[out].prec),
              !.st.ub = @ \/ M.objs[out].d = 0
                          \/ \E i \in DOMAIN args : M.objs[args[i]].d = 0]

\* an engine that steals whenever a candidate has the target precision
nary_op_branch_steal_first(M, p, rop) ==
    IF p.first # Null /\ get_prec(M, p.first) = p.second /\ p.first # rop THEN "steal"
    ELSE IF p.second = get_prec(M, rop) THEN "direct"
    ELSE IF get_prec(M, rop) > p.second THEN "shrink"
    ELSE "grow"

\* an engine that leaves rop alone whenever rop has room enough
nary_op_branch_no_shrink(M, p, rop) ==
    IF get_prec(M, rop) >= p.second THEN "direct"
    ELSE IF p.first = Null \/ get_prec(M, p.first) # p.second THEN "grow"
    ELSE "steal"

\* mpfr_nary_op_impl: which of its four branches runs
nary_op_branch(M, p, rop) ==
    LET r_prec == get_prec(M, rop)
    IN  IF p.second = r_prec THEN "direct"
        ELSE IF r_prec > p.second THEN "shrink"
        ELSE IF p.first = Null \/ get_prec(M, p.first) # p.second THEN "grow"
        ELSE "steal"

\* mpfr_nary_op_impl: rop = f(args...) at the largest precision among the operands
mpfr_nary_op_impl(M, min_prec, f, rop, args, cats) ==
    LET p == nary_pair(M, min_prec, args, cats)
        br == nary_op_branch(M, p, rop)
        M1 == [M EXCEPT !.st.br = br]
    IN  CASE br = "direct" -> mpfr_nary_func_wrapper(M1, f, rop, args)
          [] br = "shrink" ->
                 mpfr_nary_func_wrapper(set_prec_impl(M1, rop, p.second), f, rop, args)
          [] br = "grow" ->
                 mpfr_nary_func_wrapper(prec_round_impl(M1, rop, p.second), f, rop, args)
          [] br = "steal" ->
                 swap(mpfr_nary_func_wrapper(M1, f, p.first, args), p.first, rop)

\* a returning form that never reuses an operand's storage
return_steals_never(M, p) == FALSE

\* a returning form that reuses the candidate whatever its precision
return_steals_any_prec(M, p) == p.first # Null

\* mpfr_nary_op_return_impl: is there an operand to steal from, large enough
return_steals(M, p) == p.first # Null /\ get_prec(M, p.first) = p.second

\* mpfr_nary_op_return_impl: the object ret is initialised with f(args...)
mpfr_nary_op_return_impl(M, min_prec, f, ret, args, cats) ==
    LET p == nary_pair(M, min_prec, args, cats)
    IN  IF return_steals(M, p)
        THEN move_construct(
                 mpfr_nary_func_wrapper([M EXCEPT !.st.br = "steal"], f, p.first, args),
                 ret, p.first)
        ELSE mpfr_nary_func_wrapper(
                 ptag_construct([M EXCEPT !.st.br = "fresh"], ret, p.second), f, ret, args)

(***************************************************************************)
(* Precision policy.  A native source is its type and its value.           *)
(***************************************************************************)
NativeTypes == {"int", "bool"}
NativeVals(T) == IF T = "bool" THEN {0, 1} ELSE 0..MaxInit

\* the native integral types, by width; "int" and "unsigned" are the 32-bit ones
IntegralTypes ==
    {"bool", "int8", "uint8", "int16", "uint16", "int", "unsigned", "int64", "uint64"}

\* is_signed<T>
is_signed(T) == T \in {"int8", "int16", "int", "int64"}

\* width in bits of the object representation of an integer type
type_width(T) ==
    CASE T \in {"int8", "uint8"} -> 8
      [] T \in {"int16", "uint16"} -> 16
      [] T \in {"int", "unsigned"} -> 32
      [] T \in {"int64", "uint64"} -> 64
      [] T = "bool" -> 1

\* nl_digits<T>() is std::numeric_limits<T>::digits: the bits that are not the sign bit
nl_digits(T) ==
    CASE T = "int" -> IntDigits
      [] T = "bool" -> BoolDigits
      [] OTHER -> type_width(T) - (IF is_signed(T) THEN 1 ELSE 0)

\* the deduction without the term for the sign
real_deduce_precision_digits_only(T) == nl_digits(T)

\* real_deduce_precision for the integral types: the digits, plus the sign bit
real_deduce_precision(T) ==
    nl_digits(T) + (IF is_signed(T) THEN 1 ELSE 0)

\* a deduced precision used as it is
clamp_mpfr_prec_unclamped(p) == p

clamp_mpfr_prec(p) ==
    IF real_prec_check(p) THEN p
    ELSE IF p < real_prec_min THEN real_prec_min ELSE real_prec_max

\* real_dd_prec: the default precision dp if set, else the clamped deduced one
real_dd_prec(dp, T) == IF dp # 0 THEN dp ELSE clamp_mpfr_prec(real_deduce_precision(T))

\* check_init_prec / check_set_prec: does the check throw std::invalid_argument
check_prec_throws(p) == ~real_prec_check(p)

\* a resolution in which the default precision trumps the provided one
compute_init_precision_default_first(provided, dp, T) ==
    IF dp # 0 THEN dp
    ELSE IF provided # 0 THEN provided
    ELSE clamp_mpfr_prec(real_deduce_precision(T))

\* real::compute_init_precision (when it does not throw)
compute_init_precision(provided, dp, T) ==
    IF provided # 0 THEN provided ELSE real_dd_prec(dp, T)

(***************************************************************************)
(* State.                                                                  *)
(***************************************************************************)
VARIABLES
    objs,               \* the reals of the scope, by name
    heap,               \* the significand buffers currently allocated
    real_default_prec,  \* detail::real_default_prec
    pc,                 \* "setup", "done" (the operation has run), "exit", "crashed"
    last,               \* the operation that ran, and the objects as it found them
    thr                 \* the threads calling the default-precision functions

vars == <<objs, heap, real_default_prec, pc, last, thr>>

None ==
    [op |-> "none", f |-> "none", rop |-> Null, args |-> << >>, cats |-> << >>,
     min_prec |-> 0, pre |-> [o \in AllObjs |-> Dead], st |-> NoStats, threw |-> FALSE,
     T |-> "none", v |-> 0, p |-> 0, str |-> "none", base |-> 0,
     deduced |-> 0, prec |-> 0,
     ret |-> FALSE, out |-> 0, n |-> 0, err |-> "none", nv |-> NaN,
     ct |-> [signed |-> FALSE, bits |-> 0]]

\* the threads that call the default-precision functions concurrently
Threads == {"t1", "t2"}

\* per thread the calls made and the values real_get_default_prec() returned to
\* it; over all threads the arguments real_set_default_prec stored, and those
\* it rejected; mo is the modification order of the atomic (the values stored,
\* after the initial 0) and seen[t] the latest position of it that t has read
\* or written
NoCalls ==
    [calls |-> [t \in Threads |-> 0], reads |-> [t \in Threads |-> {}],
     accepted |-> {}, rejected |-> {},
     mo |-> <<0>>, seen |-> [t \in Threads |-> 1]]

Init ==
    /\ objs = [o \in AllObjs |-> Dead]
    /\ heap = {}
    /\ real_default_prec = 0
    /\ pc = "setup"
    /\ last = None
    /\ thr = NoCalls

Cur == Machine(objs, heap)

\* the operands in the alias patterns a call can have: all distinct, or some the same object
Pat2 == {<<"x", "y">>, <<"x", "x">>}
Pat3 == {<<"x", "y", "z">>, <<"x", "x", "y">>, <<"x", "y", "x">>,
         <<"x", "y", "y">>, <<"x", "x", "x">>}

\* declaration order of the scope
Before(o) == CASE o = "x" -> {} [] o = "y" -> {"x"} [] o = "z" -> {"x", "y"}

\* set-up steps leave no record, only what went wrong
SetUp(M) ==
    /\ objs' = M.objs
    /\ heap' = M.heap
    /\ last' = [None EXCEPT !.st.badfree = last.st.badfree \/ M.st.badfree,
                            !.st.ub = last.st.ub \/ M.st.ub]
    /\ UNCHANGED <<real_default_prec, pc, thr>>

\* the operation under examination: recorded with the objects as it found them
Ran(M, rec) ==
    /\ objs' = M.objs
    /\ heap' = M.heap
    /\ last' = [rec EXCEPT !.pre = objs, !.st = M.st]
    /\ pc' = "done"
    /\ UNCHANGED <<real_default_prec, thr>>

CanDeclare(o) ==
    /\ pc = "setup"
    /\ ~objs[o].alive
    /\ \A q \in Before(o) : objs[q].alive

(***************************************************************************)
(* Constructors (set-up).                                                  *)
(***************************************************************************)
\* real o{v, p}: generic constructor from a native value, p = 0 for no precision
generic_construct(M, o, T, v, p, dp) ==
    LET M1 == mpfr_init2(M, o, compute_init_precision(p, dp, T))
    IN  mpfr_set(M1, o, Fin(v))

Construct(o, T, v, p) ==
    /\ CanDeclare(o)
    /\ IF p # 0 /\ check_prec_throws(p)
       THEN UNCHANGED vars
       ELSE SetUp(generic_construct(Cur, o, T, v, p, real_default_prec))

\* real::real(): positive zero at the default or the minimum precision
default_construct(M, o, dp) ==
    mpfr_set(mpfr_init2(M, o, IF dp # 0 THEN dp ELSE real_prec_min), o, Fin(0))

DefaultConstruct(o) ==
    /\ CanDeclare(o)
    /\ SetUp(default_construct(Cur, o, real_default_prec))

\* real::real(real_kind, int, mpfr_prec_t) for real_kind::nan
nan_construct(M, o, p) == mpfr_init2(M, o, p)

NaNConstruct(o, p) ==
    /\ CanDeclare(o)
    /\ LET prec == IF p # 0 THEN p ELSE real_default_prec
       IN  IF (p # 0 /\ check_prec_throws(p)) \/ prec = 0
           THEN UNCHANGED vars
           ELSE SetUp(nan_construct(Cur, o, prec))

\* { real tmp{std::move(o)}; }: o is left moved-from, its storage goes with tmp
MoveOut(o) ==
    /\ pc = "setup"
    /\ o \in Objs
    /\ IsLive(Cur, o)
    /\ SetUp(destroy(move_construct(Cur, "t", o), "t"))

(***************************************************************************)
(* The operations.  Each runs once, from a set-up state, on live operands  *)
(* (assignments and destruction also on a moved-from receiver).            *)
(***************************************************************************)
Rec(op, f, rop, args, cats, min_prec) ==
    [None EXCEPT !.op = op, !.f = f, !.rop = rop, !.args = args, !.cats = cats,
                 !.min_prec = min_prec]

ArgVals(args) == [i \in DOMAIN args |-> objs[args[i]].val]

AllLive(S) == \A o \in S : IsLive(Cur, o)

\* add / sub / mul / div (rop, a, b): the in-place form, a and b lvalues or rvalues
NaryInPlace ==
    \E f \in BinFuncs, pat \in Pat3, ca \in BOOLEAN, cb \in BOOLEAN :
        LET rop == pat[1]
            args == <<pat[2], pat[3]>>
        IN  /\ pc = "setup"
            /\ AllLive({pat[1], pat[2], pat[3]})
            /\ PrimDefined(f, ArgVals(args))
            /\ Ran(mpfr_nary_op_impl(Cur, 0, f, rop, args, <<ca, cb>>),
                   Rec("nary", f, rop, args, <<ca, cb>>, 0))

\* detail::mpfr_nary_op(min_prec, mpfr_exp2, rop, op): the in-place form of a
\* unary function; exp2(rop, op) is the call with min_prec = 0
UnaryInPlace ==
    \E pat \in Pat2, c \in BOOLEAN, min_prec \in {0, real_prec_max} :
        LET rop == pat[1]
            args == <<pat[2]>>
        IN  /\ pc = "setup"
            /\ AllLive({pat[1], pat[2]})
            /\ PrimDefined("exp2", ArgVals(args))
            /\ Ran(mpfr_nary_op_impl(Cur, min_prec, "exp2", rop, args, <<c>>),
                   Rec("unary", "exp2", rop, args, <<c>>, min_prec))

\* real r = a op b: operator+, -, *, / through dispatch_binary_add and its siblings
BinaryReturn ==
    \E f \in BinFuncs, pat \in Pat2, ca \in BOOLEAN, cb \in BOOLEAN :
        LET args == <<pat[1], pat[2]>>
        IN  /\ pc = "setup"
            /\ AllLive({pat[1], pat[2]})
            /\ PrimDefined(f, ArgVals(args))
            /\ Ran(mpfr_nary_op_return_impl(Cur, 0, f, "r", args, <<ca, cb>>),
                   Rec("binary_return", f, "r", args, <<ca, cb>>, 0))

\* real r = exp2(a): the returning form of a unary function
UnaryReturn ==
    \E a \in {"x"}, c \in BOOLEAN :
        /\ pc = "setup"
        /\ AllLive({a})
        /\ PrimDefined("exp2", ArgVals(<<a>>))
        /\ Ran(mpfr_nary_op_return_impl(Cur, 0, "exp2", "r", <<a>>, <<c>>),
               Rec("unary_return", "exp2", "r", <<a>>, <<c>>, 0))

\* real r = a + b + c on lvalues: the intermediate a + b is the temporary t,
\* an rvalue operand of the second addition, destroyed at the end of the expression
chain_add(M, a, b, c) ==
    LET M1 == mpfr_nary_op_return_impl(M, 0, "add", "t", <<a, b>>, <<FALSE, FALSE>>)
        M2 == mpfr_nary_op_return_impl(M1, 0, "add", "r", <<"t", c>>, <<TRUE, FALSE>>)
    IN  destroy(M2, "t")

Chain ==
    \E pat \in Pat3 :
        /\ pc = "setup"
        /\ AllLive({pat[1], pat[2], pat[3]})
        /\ Ran(chain_add(Cur, pat[1], pat[2], pat[3]),
               Rec("chain", "add", "r", <<pat[1], pat[2], pat[3]>>,
                   <<FALSE, FALSE, FALSE>>, 0))

\* a op= b on reals: dispatch_in_place_add and its siblings call add(a, a, b)
dispatch_in_place(M, f, a, b, cb) ==
    mpfr_nary_op_impl(M, 0, f, a, <<a, b>>, <<FALSE, cb>>)

CompoundAssign ==
    \E f \in BinFuncs, pat \in Pat2, cb \in BOOLEAN :
        LET a == pat[1]
            b == pat[2]
        IN  /\ pc = "setup"
            /\ AllLive({a, b})
            /\ PrimDefined(f, ArgVals(<<a, b>>))
            /\ Ran(dispatch_in_place(Cur, f, a, b, cb),
                   Rec("compound", f, a, <<a, b>>, <<FALSE, cb>>, 0))

\* a copy assignment that always resets the precision of the receiver
copy_assign_no_init(M, o, other) ==
    IF o = other THEN M
    ELSE mpfr_set(set_prec_impl(M, o, get_prec(M, other)), o, M.objs[other].val)

\* real::operator=(const real &other)
copy_assign(M, o, other) ==
    IF o = other THEN M
    ELSE LET M1 == IF M.objs[o].d # 0
                   THEN set_prec_impl(M, o, get_prec(M, other))
                   ELSE mpfr_init2(M, o, get_prec(M, other))
         IN  mpfr_set(M1, o, M.objs[other].val)

\* the receiver is live or moved-from, the source is live
CopyAssign ==
    \E pat \in Pat2 :
        /\ pc = "setup"
        /\ objs[pat[1]].alive
        /\ IsLive(Cur, pat[2])
        /\ Ran(copy_assign(Cur, pat[1], pat[2]),
               Rec("copy_assign", "none", pat[1], <<pat[2]>>, <<FALSE>>, 0))

\* real::operator=(real &&other): std::swap of the two structs
move_assign(M, o, other) ==
    [M EXCEPT !.objs[o] = M.objs[other], !.objs[other] = M.objs[o]]

MoveAssign ==
    \E pat \in Pat2 :
        /\ pc = "setup"
        /\ objs[pat[1]].alive
        /\ IsLive(Cur, pat[2])
        /\ Ran(move_assign(Cur, pat[1], pat[2]),
               Rec("move_assign", "none", pat[1], <<pat[2]>>, <<TRUE>>, 0))

\* real::operator=(const T &x), dispatch_assignment<true>: the precision is
\* an assignment that sets the value at the receiver's precision
generic_assign_keep_prec(M, o, T, v, dp) == mpfr_set(M, o, Fin(v))

\* reset to real_dd_prec(x) by mpfr_set_prec, then the value is set
generic_assign(M, o, T, v, dp) ==
    mpfr_set(set_prec_impl(M, o, real_dd_prec(dp, T)), o, Fin(v))

\* On a moved-from receiver mpfr_set_prec and mpfr_set_si work on a null
\* significand: undefined behaviour.  The outcomes are the process dying
\* ("crashed") or going on with the receiver's significand still null.
GenericAssign ==
    \E o \in {"x"}, T \in NativeTypes :
      \E v \in NativeVals(T) :
        /\ pc = "setup"
        /\ objs[o].alive
        /\ LET M == generic_assign(Cur, o, T, v, real_default_prec)
               rec == Rec("generic_assign", T, o, << >>, << >>, 0)
           IN  IF M.st.ub
               THEN \/ Ran(M, rec)
                    \/ /\ last' = [rec EXCEPT !.pre = objs, !.st = M.st]
                       /\ pc' = "crashed"
                       /\ UNCHANGED <<objs, heap, real_default_prec, thr>>
               ELSE Ran(M, rec)

\* real r{std::move(a)}
MoveConstruct ==
    \E a \in {"x"} :
        /\ pc = "setup"
        /\ IsLive(Cur, a)
        /\ Ran(move_construct(Cur, "r", a),
               Rec("move_construct", "none", "r", <<a>>, <<TRUE>>, 0))

\* real r{a}
CopyConstruct ==
    \E a \in {"x"} :
        /\ pc = "setup"
        /\ IsLive(Cur, a)
        /\ Ran(copy_construct(Cur, "r", a),
               Rec("copy_construct", "none", "r", <<a>>, <<FALSE>>, 0))

\* swap(a, b)
Swap ==
    \E pat \in Pat2 :
        /\ pc = "setup"
        /\ AllLive({pat[1], pat[2]})
        /\ Ran(swap(Cur, pat[1], pat[2]),
               Rec("swap", "none", pat[1], <<pat[2]>>, <<FALSE>>, 0))

\* real::set_prec(p): checked, destructive
SetPrec ==
    \E o \in {"x"}, p \in 0..(real_prec_max + 1) :
        /\ pc = "setup"
        /\ IsLive(Cur, o)
        /\ LET rec == Rec("set_prec", "none", o, << >>, << >>, p)
           IN  IF check_prec_throws(p)
               THEN Ran(Cur, [rec EXCEPT !.threw = TRUE])
               ELSE Ran(set_prec_impl(Cur, o, p), rec)

\* real::prec_round(p): checked, value-preserving
PrecRound ==
    \E o \in {"x"}, p \in 0..(real_prec_max + 1) :
        /\ pc = "setup"
        /\ IsLive(Cur, o)
        /\ LET rec == Rec("prec_round", "none", o, << >>, << >>, p)
           IN  IF check_prec_throws(p)
               THEN Ran(Cur, [rec EXCEPT !.threw = TRUE])
               ELSE Ran(prec_round_impl(Cur, o, p), rec)

\* the end of the scope: every object is destroyed, in reverse order of declaration
RECURSIVE destroy_all(_, _)
destroy_all(M, order) ==
    IF order = << >> THEN M
    ELSE destroy_all(IF M.objs[Head(order)].alive THEN destroy(M, Head(order)) ELSE M,
                     Tail(order))

ScopeExit ==
    /\ pc = "done"
    /\ LET M == destroy_all([Cur EXCEPT !.st.badfree = last.st.badfree,
                                        !.st.ub = last.st.ub],
                            <<"r", "z", "y", "x">>)
       IN  /\ objs' = M.objs
           /\ heap' = M.heap
           /\ last' = [None EXCEPT !.op = last.op, !.st.free = M.st.free,
                                   !.st.badfree = M.st.badfree, !.st.ub = M.st.ub]
    /\ pc' = "exit"
    /\ UNCHANGED <<real_default_prec, thr>>

(***************************************************************************)
(* The default precision.                                                  *)
(***************************************************************************)
\* a setter that takes 0 for an invalid precision
set_default_prec_rejects_zero(dp, p) ==
    IF ~real_prec_check(p)
    THEN [dp |-> dp, threw |-> TRUE]
    ELSE [dp |-> p, threw |-> FALSE]

\* a setter that stores without validating
set_default_prec_unchecked(dp, p) == [dp |-> p, threw |-> FALSE]

\* real_set_default_prec(p) on the stored value dp: the stored value afterwards,
\* and whether std::invalid_argument was thrown
set_default_prec(dp, p) ==
    IF p # 0 /\ ~real_prec_check(p)
    THEN [dp |-> dp, threw |-> TRUE]
    ELSE [dp |-> p, threw |-> FALSE]

\* a reset that leaves the stored value
reset_default_prec_noop(dp) == dp

\* real_reset_default_prec() on the stored value dp: the stored value afterwards
reset_default_prec(dp) == 0

\* the precisions a caller may pass: none (0), the valid ones, and invalid ones
PrecArgs == 0..(real_prec_max + 1)

\* real_get_default_prec()
real_get_default_prec == real_default_prec

\* real_set_default_prec(p): rejected unless p is 0 or a valid precision
real_set_default_prec(p) ==
    /\ pc = "setup"
    /\ real_default_prec' = set_default_prec(real_default_prec, p).dp
    /\ UNCHANGED <<objs, heap, pc, last, thr>>

\* real_reset_default_prec()
real_reset_default_prec ==
    /\ pc = "setup"
    /\ real_default_prec' = reset_default_prec(real_default_prec)
    /\ UNCHANGED <<objs, heap, pc, last, thr>>

\* an operation that ended by throwing std::invalid_argument, the machine as
\* the throw left it; an object under construction never came to life
Threw(M, rec) == Ran(M, [rec EXCEPT !.threw = TRUE])

\* the operation is the first statement of the scope
NoneDeclared == \A o \in Objs : ~objs[o].alive
\* the scope has declared x alone, and x has its storage
OnlyX == IsLive(Cur, "x") /\ ~objs["y"].alive

\* real_set_default_prec(p), examined
SetDefaultPrecOp ==
    \E p \in PrecArgs \cup {-1} :
        /\ pc = "setup"
        /\ NoneDeclared
        /\ LET res == set_default_prec(real_default_prec, p)
           IN  /\ real_default_prec' = res.dp
               /\ last' = [None EXCEPT !.op = "set_default_prec", !.p = p,
                                       !.prec = real_default_prec,
                                       !.threw = res.threw]
               /\ pc' = "done"
               /\ UNCHANGED <<objs, heap, thr>>

\* real r{v, p}, examined: the generic constructor from a native value
ConstructOp ==
    \E T \in NativeTypes, p \in PrecArgs :
      \E v \in NativeVals(T) :
        /\ pc = "setup"
        /\ NoneDeclared
        /\ LET rec == [Rec("construct", "none", "r", << >>, << >>, 0)
                          EXCEPT !.T = T, !.v = v, !.p = p]
           IN  IF p # 0 /\ check_prec_throws(p)
               THEN Threw(Cur, rec)
               ELSE Ran(generic_construct(Cur, "r", T, v, p, real_default_prec), rec)

\* real_set_default_prec(p); real_reset_default_prec(); then real r{v}, or x = v
SetResetThen ==
    \E p \in 1..real_prec_max, T \in NativeTypes, how \in {"construct", "assign"} :
      \E v \in NativeVals(T) :
        /\ pc = "setup"
        /\ IF how = "construct" THEN NoneDeclared ELSE OnlyX
        /\ LET dp1 == set_default_prec(real_default_prec, p).dp
               dp2 == reset_default_prec(dp1)
               M == IF how = "construct"
                    THEN generic_construct(Cur, "r", T, v, 0, dp2)
                    ELSE generic_assign(Cur, "x", T, v, dp2)
               rec == [Rec("set_reset_" \o how, "none",
                           IF how = "construct" THEN "r" ELSE "x", << >>, << >>, 0)
                          EXCEPT !.T = T, !.v = v, !.p = p, !.prec = dp1]
           IN  /\ objs' = M.objs
               /\ heap' = M.heap
               /\ real_default_prec' = dp2
               /\ last' = [rec EXCEPT !.pre = objs, !.st = M.st]
               /\ pc' = "done"
               /\ UNCHANGED thr

\* a mixed operation that converts the native operand at the real operand's precision
dispatch_binary_mixed_at_real_prec(M, f, a, ca, T, v, dp, realFirst) ==
    LET M1 == mpfr_set(mpfr_init2(M, "t", get_prec(M, a)), "t", Fin(v))
    IN  IF realFirst
        THEN mpfr_nary_op_return_impl(M1, 0, f, "r", <<a, "t">>, <<ca, FALSE>>)
        ELSE mpfr_nary_op_return_impl(M1, 0, f, "r", <<"t", a>>, <<FALSE, ca>>)

\* dispatch_binary_add(a, x) and dispatch_binary_add(x, a) and their siblings:
\* the native operand is assigned to the function's own real tmp (here t, made
\* by real() on the function's first call), then the two reals are combined
dispatch_binary_mixed(M, f, a, ca, T, v, dp, realFirst) ==
    LET M1 == generic_assign(default_construct(M, "t", dp), "t", T, v, dp)
    IN  IF realFirst
        THEN mpfr_nary_op_return_impl(M1, 0, f, "r", <<a, "t">>, <<ca, FALSE>>)
        ELSE mpfr_nary_op_return_impl(M1, 0, f, "r", <<"t", a>>, <<FALSE, ca>>)

\* real r = a op v, real r = v op a
MixedBinary ==
    \E f \in BinFuncs, T \in NativeTypes, ca \in BOOLEAN, realFirst \in BOOLEAN :
      \E v \in NativeVals(T) :
        /\ pc = "setup"
        /\ OnlyX
        /\ LET vs == IF realFirst THEN <<objs["x"].val, Fin(v)>>
                     ELSE <<Fin(v), objs["x"].val>>
           IN  PrimDefined(f, vs)
        /\ Ran(dispatch_binary_mixed(Cur, f, "x", ca, T, v, real_default_prec, realFirst),
               [Rec("mixed", f, "r", <<"x">>, <<ca>>, 0)
                   EXCEPT !.T = T, !.v = v, !.str = IF realFirst THEN "a op x" ELSE "x op a"])

(***************************************************************************)
(* Strings, special values and constants.                                  *)
(***************************************************************************)
\* one-character strings: three digits and a character that is no digit
Strings == {"0", "1", "2", "?"}
Bases == {0, 1, 2, 10, 62, 63}

StrDigit(str) == CASE str = "0" -> 0 [] str = "1" -> 1 [] str = "2" -> 2 [] OTHER -> -1

\* mpfr_set_str returns 0: every character is a digit of the base (base 0: decimal here)
mpfr_set_str_ok(str, base) ==
    StrDigit(str) >= 0 /\ StrDigit(str) < (IF base = 0 THEN 10 ELSE base)

\* the rejected bases: neither 0 nor in [2, 62]
base_invalid(base) == base # 0 /\ (base < 2 \/ base > 62)

\* the outcome of a constructor or setter that may throw std::invalid_argument
Outcome(M, threw) == [M |-> M, threw |-> threw]

\* a string constructor that falls back to the minimum precision
construct_from_c_string_min_prec(M, o, str, base, p, dp) ==
    LET M1 == mpfr_init2(M, o, IF p # 0 THEN p ELSE IF dp # 0 THEN dp ELSE real_prec_min)
    IN  IF base_invalid(base) \/ (p # 0 /\ check_prec_throws(p)) THEN Outcome(M, TRUE)
        ELSE IF ~mpfr_set_str_ok(str, base)
        THEN Outcome([mpfr_clear(M1, o) EXCEPT !.objs[o] = Dead], TRUE)
        ELSE Outcome(mpfr_set(M1, o, Fin(StrDigit(str))), FALSE)

\* a string constructor that throws on a parse failure without mpfr_clear
construct_from_c_string_no_clear(M, o, str, base, p, dp) ==
    LET prec == IF p # 0 THEN p ELSE dp
        M1 == mpfr_init2(M, o, prec)
    IN  IF base_invalid(base) \/ (p # 0 /\ check_prec_throws(p)) \/ prec = 0
        THEN Outcome(M, TRUE)
        ELSE IF ~mpfr_set_str_ok(str, base)
        THEN Outcome([M1 EXCEPT !.objs[o] = Dead], TRUE)
        ELSE Outcome(mpfr_set(M1, o, Fin(StrDigit(str))), FALSE)

\* real::construct_from_c_string(s, base, p), the default precision being dp
construct_from_c_string(M, o, str, base, p, dp) ==
    IF base_invalid(base) THEN Outcome(M, TRUE)
    ELSE IF p # 0 /\ check_prec_throws(p) THEN Outcome(M, TRUE)
    ELSE LET prec == IF p # 0 THEN p ELSE dp
             M1 == mpfr_init2(M, o, prec)
         IN  IF prec = 0 THEN Outcome(M, TRUE)
             ELSE IF ~mpfr_set_str_ok(str, base)
             THEN Outcome([mpfr_clear(M1, o) EXCEPT !.objs[o] = Dead], TRUE)
             ELSE Outcome(mpfr_set(M1, o, Fin(StrDigit(str))), FALSE)

RealKinds == {"nan", "inf", "zero", "other"}

\* real::set_nan, real::set_inf(sign), real::set_zero(sign)
set_nan(M, o) == mpfr_set(M, o, NaN)
set_inf(M, o, sign) == mpfr_set(M, o, Inf(IF sign < 0 THEN -1 ELSE 1))
set_zero(M, o, sign) == mpfr_set(M, o, Fin(0))

\* real::real(real_kind k, int sign, mpfr_prec_t p), the default precision being dp
special_construct(M, o, k, sign, p, dp) ==
    IF p # 0 /\ check_prec_throws(p) THEN Outcome(M, TRUE)
    ELSE IF p = 0 /\ dp = 0 THEN Outcome(M, TRUE)
    ELSE LET M1 == mpfr_init2(M, o, IF p # 0 THEN p ELSE dp)
         IN  CASE k = "nan" -> Outcome(M1, FALSE)
               [] k = "inf" -> Outcome(set_inf(M1, o, sign), FALSE)
               [] k = "zero" -> Outcome(set_zero(M1, o, sign), FALSE)
               [] OTHER -> Outcome([mpfr_clear(M1, o) EXCEPT !.objs[o] = Dead], TRUE)

\* detail::real_constant(f, p) for real_pi: pi to the nearest at p bits
real_constant(M, o, p, dp) ==
    IF p # 0 /\ ~real_prec_check(p) THEN Outcome(M, TRUE)
    ELSE IF p = 0 /\ dp = 0 THEN Outcome(M, TRUE)
    ELSE Outcome(mpfr_set(ptag_construct(M, o, IF p # 0 THEN p ELSE dp), o, Fin(3)), FALSE)

\* a string setter that resets the precision to the minimum
string_assignment_impl_min_prec(M, o, str, base) ==
    IF base_invalid(base) THEN Outcome(M, TRUE)
    ELSE LET M1 == set_prec_impl(M, o, real_prec_min)
         IN  IF ~mpfr_set_str_ok(str, base) THEN Outcome(mpfr_set(M1, o, NaN), TRUE)
             ELSE Outcome(mpfr_set(M1, o, Fin(StrDigit(str))), FALSE)

\* real::string_assignment_impl(s, base): on a parse failure the value is NaN
string_assignment_impl(M, o, str, base) ==
    IF base_invalid(base) THEN Outcome(M, TRUE)
    ELSE IF ~mpfr_set_str_ok(str, base) THEN Outcome(mpfr_set(M, o, NaN), TRUE)
    ELSE Outcome(mpfr_set(M, o, Fin(StrDigit(str))), FALSE)

\* real::string_assignment(s): r = "..." needs a default precision
\* a string assignment that resets the precision before it looks for a default
string_assignment_resets_first(M, o, str, dp) ==
    IF dp = 0 THEN Outcome(set_prec_impl(M, o, real_prec_min), TRUE)
    ELSE string_assignment_impl(set_prec_impl(M, o, dp), o, str, 10)

string_assignment(M, o, str, dp) ==
    IF dp = 0 THEN Outcome(M, TRUE)
    ELSE string_assignment_impl(set_prec_impl(M, o, dp), o, str, 10)

\* real::set(const real &), real::set(const T &) = dispatch_assignment<false>
set_real(M, o, other) == mpfr_set(M, o, M.objs[other].val)
set_native(M, o, T, v) == mpfr_set(M, o, Fin(v))

\* how an operation that may throw ends
Ends(out, rec) == IF out.threw THEN Threw(out.M, rec) ELSE Ran(out.M, rec)

\* real r{str, base, p}
StringConstruct ==
    \E str \in Strings, base \in Bases, p \in PrecArgs :
        /\ pc = "setup"
        /\ NoneDeclared
        /\ Ends(construct_from_c_string(Cur, "r", str, base, p, real_default_prec),
                [Rec("string_construct", "none", "r", << >>, << >>, 0)
                    EXCEPT !.str = str, !.base = base, !.p = p])

\* real r{kind, sign, p}
SpecialConstruct ==
    \E k \in RealKinds, sign \in {-1, 1}, p \in PrecArgs :
        /\ pc = "setup"
        /\ NoneDeclared
        /\ Ends(special_construct(Cur, "r", k, sign, p, real_default_prec),
                [Rec("special_construct", k, "r", << >>, << >>, 0)
                    EXCEPT !.v = sign, !.p = p])

\* real r = real_pi(p)
RealConstant ==
    \E p \in PrecArgs :
        /\ pc = "setup"
        /\ NoneDeclared
        /\ Ends(real_constant(Cur, "r", p, real_default_prec),
                [Rec("real_constant", "pi", "r", << >>, << >>, 0) EXCEPT !.p = p])

\* x = str
StringAssign ==
    \E str \in Strings :
        /\ pc = "setup"
        /\ OnlyX
        /\ Ends(string_assignment(Cur, "x", str, real_default_prec),
                [Rec("string_assign", "none", "x", << >>, << >>, 0)
                    EXCEPT !.str = str, !.base = 10])

\* a.set(b), b a real
SetReal ==
    \E pat \in Pat2 :
        /\ pc = "setup"
        /\ AllLive({pat[1], pat[2]})
        /\ Ran(set_real(Cur, pat[1], pat[2]),
               Rec("set_real", "none", pat[1], <<pat[2]>>, <<FALSE>>, 0))

\* x.set(v), v a native value
SetNative ==
    \E T \in NativeTypes :
      \E v \in NativeVals(T) :
        /\ pc = "setup"
        /\ OnlyX
        /\ Ran(set_native(Cur, "x", T, v),
               [Rec("set_native", "none", "x", << >>, << >>, 0) EXCEPT !.T = T, !.v = v])

\* x.set(str, base)
SetString ==
    \E str \in Strings, base \in Bases :
        /\ pc = "setup"
        /\ OnlyX
        /\ Ends(string_assignment_impl(Cur, "x", str, base),
                [Rec("set_string", "none", "x", << >>, << >>, 0)
                    EXCEPT !.str = str, !.base = base])

\* x.set_nan(), x.set_inf(sign), x.set_zero(sign)
SetSpecial ==
    \E k \in {"nan", "inf", "zero"}, sign \in {-1, 1} :
        /\ pc = "setup"
        /\ OnlyX
        /\ Ran(CASE k = "nan" -> set_nan(Cur, "x")
                 [] k = "inf" -> set_inf(Cur, "x", sign)
                 [] k = "zero" -> set_zero(Cur, "x", sign),
               [Rec("set_" \o k, "none", "x", << >>, << >>, 0) EXCEPT !.v = sign])

\* the declarations of a scope whose reals are the objects of O
SetUpNext(O) ==
    \/ \E o \in O, T \in NativeTypes, p \in 0..(real_prec_max + 1) :
           \E v \in NativeVals(T) : Construct(o, T, v, p)
    \/ \E o \in O : DefaultConstruct(o)
    \/ \E o \in O, p \in 0..(real_prec_max + 1) : NaNConstruct(o, p)
    \/ \E o \in O : MoveOut(o)

OpNext ==
    \/ NaryInPlace
    \/ UnaryInPlace
    \/ BinaryReturn
    \/ UnaryReturn
    \/ Chain
    \/ CompoundAssign
    \/ CopyAssign
    \/ MoveAssign
    \/ GenericAssign
    \/ MoveConstruct
    \/ CopyConstruct
    \/ Swap
    \/ SetPrec
    \/ PrecRound

\* a scope of three reals, the default precision left unset
Next == SetUpNext(Objs) \/ OpNext \/ ScopeExit

Spec == Init /\ [][Next]_vars

\* the operations that resolve a precision
PolicyNext ==
    \/ SetDefaultPrecOp
    \/ ConstructOp
    \/ SetResetThen
    \/ MixedBinary
    \/ StringConstruct
    \/ SpecialConstruct
    \/ RealConstant
    \/ StringAssign
    \/ SetReal
    \/ SetNative
    \/ SetString
    \/ SetSpecial

\* a scope of two reals in a program that also sets the default precision
NextPrec ==
    \/ \E p \in 0..(real_prec_max + 1) : real_set_default_prec(p)
    \/ real_reset_default_prec
    \/ SetUpNext({"x", "y"})
    \/ OpNext
    \/ PolicyNext
    \/ ScopeExit

SpecPrec == Init /\ [][NextPrec]_vars

(***************************************************************************)
(* Threads on the default precision.  real_default_prec is a std::atomic   *)
(* accessed with memory_order_relaxed: a store takes the next place in the *)
(* modification order, a load returns a value of that order that is not    *)
(* older than what the thread has already read or written.  The check of   *)
(* real_set_default_prec works on its argument alone.                      *)
(***************************************************************************)
CanCall(t) == pc = "setup" /\ NoneDeclared /\ thr.calls[t] < MaxCalls

\* a store by thread t that left the value v
Stored(t, v) ==
    [thr EXCEPT !.calls[t] = @ + 1,
                !.mo = Append(@, v),
                !.seen[t] = Len(thr.mo) + 1]

\* real_get_default_prec() in thread t: a relaxed load
ThreadGet(t) ==
    /\ CanCall(t)
    /\ \E i \in thr.seen[t]..Len(thr.mo) :
           thr' = [thr EXCEPT !.calls[t] = @ + 1,
                              !.seen[t] = i,
                              !.reads[t] = @ \cup {thr.mo[i]}]
    /\ UNCHANGED <<objs, heap, real_default_prec, pc, last>>

\* real_set_default_prec(p) in thread t: throw, or a relaxed store
ThreadSet(t, p) ==
    /\ CanCall(t)
    /\ LET res == set_default_prec(real_default_prec, p)
       IN  /\ real_default_prec' = res.dp
           /\ thr' = IF res.threw
                     THEN [thr EXCEPT !.calls[t] = @ + 1, !.rejected = @ \cup {p}]
                     ELSE [Stored(t, res.dp) EXCEPT !.accepted = @ \cup {p}]
    /\ UNCHANGED <<objs, heap, pc, last>>

\* real_reset_default_prec() in thread t: a relaxed store of 0
ThreadReset(t) ==
    /\ CanCall(t)
    /\ real_default_prec' = reset_default_prec(real_default_prec)
    /\ thr' = Stored(t, reset_default_prec(real_default_prec))
    /\ UNCHANGED <<objs, heap, pc, last>>

\* a default constructor that loads the default precision to test it and
\* loads it again to use it
default_construct_loads_twice(M, o, ld) ==
    mpfr_set(mpfr_init2(M, o, IF ld[1] # 0 THEN ld[2] ELSE real_prec_min), o, Fin(0))

\* real::real() in a thread, ld the values that successive loads of the
\* default precision return: dp is loaded once, then tested and used
default_construct_loads(M, o, ld) == default_construct(M, o, ld[1])

\* the constructions and assignments that use the default precision
ThreadOpKinds ==
    {"default", "generic", "string", "special", "constant", "assign", "string_assign"}

\* one of them in a thread, on its real x; an assignment finds x as
\* real{real_kind::nan, real_prec_max} left it.  Each is given the value that
\* its single call of real_get_default_prec() returns
thread_op(M, kind, T, ld) ==
    LET M0 == nan_construct(M, "x", real_prec_max)
    IN  CASE kind = "default" -> Outcome(default_construct_loads(M, "x", ld), FALSE)
          [] kind = "generic" -> Outcome(generic_construct(M, "x", T, 1, 0, ld[1]), FALSE)
          [] kind = "string" -> construct_from_c_string(M, "x", "1", 10, 0, ld[1])
          [] kind = "special" -> special_construct(M, "x", "zero", 1, 0, ld[1])
          [] kind = "constant" -> real_constant(M, "x", 0, ld[1])
          [] kind = "assign" -> Outcome(generic_assign(M0, "x", T, 1, ld[1]), FALSE)
          [] kind = "string_assign" -> string_assignment(M0, "x", "1", ld[1])

\* a construction or an assignment in thread t while the other threads store
ThreadOp(t) ==
    /\ CanCall(t)
    /\ \E kind \in ThreadOpKinds :
       \E T \in IF kind \in {"generic", "assign"} THEN NativeTypes ELSE {"int"} :
       \E i \in thr.seen[t]..Len(thr.mo) :
       \E j \in i..Len(thr.mo) :
          LET out == thread_op(Cur, kind, T, <<thr.mo[i], thr.mo[j]>>)
              before == IF kind \in {"assign", "string_assign"}
                        THEN nan_construct(Cur, "x", real_prec_max).objs
                        ELSE objs
          IN  /\ objs' = out.M.objs
              /\ heap' = out.M.heap
              /\ last' = [Rec("thread_op", kind, "x", << >>, << >>, 0)
                             EXCEPT !.T = T, !.threw = out.threw, !.pre = before,
                                    !.st = out.M.st, !.p = i]
              /\ pc' = "done"
              /\ thr' = [thr EXCEPT !.calls[t] = @ + 1, !.seen[t] = i]
              /\ UNCHANGED real_default_prec

NextThreads ==
    \E t \in Threads :
        \/ ThreadGet(t)
        \/ \E p \in PrecArgs \cup {-1} : ThreadSet(t, p)
        \/ ThreadReset(t)

SpecThreads == Init /\ [][NextThreads]_vars

\* one of the threads (they are interchangeable) also constructs and assigns reals
NextThreadOps ==
    \/ NextThreads
    \/ ThreadOp("t1")

SpecThreadOps == Init /\ [][NextThreadOps]_vars

\* the scope of x, y and z again, for the properties of the donor search
SpecEngine == Init /\ [][Next]_vars

(***************************************************************************)
(* The precision functions on their own: a source type, a precision        *)
(* argument and a stored default precision are given, and resolved.        *)
(***************************************************************************)
InitResolve ==
    /\ objs = [o \in AllObjs |-> Dead]
    /\ heap = {}
    /\ real_default_prec \in 0..real_prec_max
    /\ pc = "given"
    /\ thr = NoCalls
    /\ \E T \in IntegralTypes, p \in PrecArgs : last = [None EXCEPT !.T = T, !.p = p]

\* real_deduce_precision(x) and compute_init_precision(p, x) for an x of type T
Resolve ==
    /\ pc = "given"
    /\ last' = [last EXCEPT
                  !.op = "resolve",
                  !.deduced = real_deduce_precision(last.T),
                  !.threw = last.p # 0 /\ check_prec_throws(last.p),
                  !.prec = IF last.p # 0 /\ check_prec_throws(last.p) THEN 0
                           ELSE compute_init_precision(last.p, real_default_prec, last.T)]
    /\ pc' = "resolved"
    /\ UNCHANGED <<objs, heap, real_default_prec, thr>>

SpecResolve == InitResolve /\ [][Resolve]_vars

(***************************************************************************)
(* Comparison and conversion.  Besides the integers the reals here hold    *)
(* odd multiples of 1/2, the values a truncation has something to remove   *)
(* from.                                                                   *)
(***************************************************************************)
\* s/2 for an odd s
Half(s) == [k |-> "half", n |-> s]

\* twice a number, an infinity lying beyond every finite value
Twice(v) ==
    CASE v.k = "fin" -> 2 * v.n
      [] v.k = "half" -> v.n
      [] v.k = "inf" -> v.n * Pow2(EMax + 2)
      [] OTHER -> 0

nan_p(v) == v.k = "nan"
number_p(v) == v.k \in {"fin", "half"}
zero_p(v) == v.k = "fin" /\ v.n = 0

\* the MPFR comparison predicates: false as soon as an operand is NaN
mpfr_equal_p(a, b) == ~nan_p(a) /\ ~nan_p(b) /\ Twice(a) = Twice(b)
mpfr_less_p(a, b) == ~nan_p(a) /\ ~nan_p(b) /\ Twice(a) < Twice(b)
mpfr_lessequal_p(a, b) == ~nan_p(a) /\ ~nan_p(b) /\ Twice(a) <= Twice(b)
mpfr_greater_p(a, b) == ~nan_p(a) /\ ~nan_p(b) /\ Twice(a) > Twice(b)
mpfr_greaterequal_p(a, b) == ~nan_p(a) /\ ~nan_p(b) /\ Twice(a) >= Twice(b)

CmpOps == {"==", "!=", "<", "<=", ">", ">="}

\* an inequality written with its own MPFR predicate, mpfr_lessgreater_p
operator_ne_lessgreater(a, b) == mpfr_less_p(a, b) \/ mpfr_greater_p(a, b)

\* operator!=(a, b): !(a == b)
operator_ne(a, b) == ~mpfr_equal_p(a, b)

\* dispatch_real_comparison(f, a, b) for two reals: f(a, b) != 0, with the f
\* each operator passes
dispatch_real_comparison(op, a, b) ==
    CASE op = "==" -> mpfr_equal_p(a, b)
      [] op = "!=" -> operator_ne(a, b)
      [] op = "<" -> mpfr_less_p(a, b)
      [] op = "<=" -> mpfr_lessequal_p(a, b)
      [] op = ">" -> mpfr_greater_p(a, b)
      [] op = ">=" -> mpfr_greaterequal_p(a, b)

\* nl_digits<double>()
DoubleDigits == 53

\* real_deduce_precision for a floating-point type of radix 2
real_deduce_precision_fp == DoubleDigits

\* the native operands of a mixed operation: integral ones, and doubles with
\* their special values
MixedTypes == NativeTypes \cup {"double"}
MixedVals(T) ==
    IF T = "double" THEN {Fin(n) : n \in 0..MaxInit} \cup {NaN, Inf(1), Inf(-1)}
    ELSE {Fin(n) : n \in NativeVals(T)}

\* real_dd_prec(x) for a native x of any of these types
mixed_dd_prec(dp, T) ==
    IF T = "double"
    THEN (IF dp # 0 THEN dp ELSE clamp_mpfr_prec(real_deduce_precision_fp))
    ELSE real_dd_prec(dp, T)

\* tmp = x on the function's own real t: constructed by real() when the
\* function is first called, then assigned by real::operator=(const T &)
scratch_assign(M, T, nv, dp) ==
    LET M0 == IF M.objs["t"].alive THEN M ELSE default_construct(M, "t", dp)
    IN  mpfr_set(set_prec_impl(M0, "t", mixed_dd_prec(dp, T)), "t", nv)

\* dispatch_real_comparison(f, a, x) and (f, x, a): tmp = x, then f on the reals
dispatch_real_comparison_mixed(M, op, a, T, nv, dp, realFirst) ==
    LET M1 == scratch_assign(M, T, nv, dp)
        r == IF realFirst
             THEN dispatch_real_comparison(op, M1.objs[a].val, M1.objs["t"].val)
             ELSE dispatch_real_comparison(op, M1.objs["t"].val, M1.objs[a].val)
    IN  [M |-> M1, ret |-> r]

\* a total order that does not tell a NaN from a moved-from object
real_lt_nan_last(a, b) ==
    IF a.d # 0 /\ b.d # 0 /\ ~nan_p(a.val) /\ ~nan_p(b.val) THEN mpfr_less_p(a.val, b.val)
    ELSE a.d # 0 /\ ~nan_p(a.val)

\* real_lt(a, b) on the two objects
real_lt(a, b) ==
    IF a.d = 0 THEN FALSE
    ELSE IF b.d = 0 THEN TRUE
    ELSE IF ~nan_p(a.val) /\ ~nan_p(b.val) THEN mpfr_less_p(a.val, b.val)
    ELSE ~nan_p(a.val)

\* real_gt(a, b) on the two objects
real_gt(a, b) ==
    IF b.d = 0 THEN FALSE
    ELSE IF a.d = 0 THEN TRUE
    ELSE IF ~nan_p(a.val) /\ ~nan_p(b.val) THEN mpfr_greater_p(a.val, b.val)
    ELSE ~nan_p(b.val)

\* the values a real of precision p can hold
RealVals(p) ==
    {v \in {Fin(n) : n \in (1 - Pow2(EMax))..(Pow2(EMax) - 1)} : RoundVal(v, p) = v}
        \cup {Half(s) : s \in {t \in {-3, -1, 1, 3} : BitLen(Abs(t)) <= p}}
        \cup {NaN, Inf(1), Inf(-1)}

\* the states of a real that owns the buffer b, and the moved-from ones
RealStates(b) ==
    {[alive |-> TRUE, d |-> b, prec |-> p, val |-> v] :
        <<p, v>> \in {q \in (real_prec_min..real_prec_max) \X RealVals(real_prec_max) :
                        q[2] \in RealVals(q[1])}}
        \cup {[alive |-> TRUE, d |-> 0, prec |-> p, val |-> NaN] :
                p \in real_prec_min..real_prec_max}

\* the function-local real of the mixed operations: not yet constructed, or
\* as an earlier call left it
ScratchStates(b) ==
    {Dead} \cup {[alive |-> TRUE, d |-> b, prec |-> p, val |-> Fin(0)] :
                   p \in real_prec_min..real_prec_max}

\* a scope holding the reals x and y in any state
InitPair ==
    /\ \E sx \in RealStates(1), sy \in RealStates(2) :
          objs = [o \in AllObjs |-> CASE o = "x" -> sx [] o = "y" -> sy [] OTHER -> Dead]
    /\ heap = {objs[o].d : o \in {"x", "y"}} \ {0}
    /\ real_default_prec = 0
    /\ pc = "setup"
    /\ last = None
    /\ thr = NoCalls

\* a scope holding the real x in any state, in a program that may have set a
\* default precision and may have called the mixed operations before
InitScratch ==
    /\ \E sx \in RealStates(1), st \in ScratchStates(3) :
          objs = [o \in AllObjs |-> CASE o = "x" -> sx [] o = "t" -> st [] OTHER -> Dead]
    /\ heap = {objs[o].d : o \in {"x", "t"}} \ {0}
    /\ real_default_prec \in 0..real_prec_max
    /\ pc = "setup"
    /\ last = None
    /\ thr = NoCalls

InitValue == InitPair \/ InitScratch

\* a op b on two reals
Compare ==
    \E op \in CmpOps, pat \in {<<"x", "y">>, <<"y", "x">>, <<"x", "x">>} :
        /\ pc = "setup"
        /\ AllLive({pat[1], pat[2]})
        /\ Ran(Cur, [Rec("compare", op, Null, pat, <<FALSE, FALSE>>, 0)
                        EXCEPT !.ret = dispatch_real_comparison(op, objs[pat[1]].val,
                                                                objs[pat[2]].val)])

\* a op v and v op a for a native v
CompareMixed ==
    \E op \in CmpOps, T \in MixedTypes, realFirst \in BOOLEAN :
      \E nv \in MixedVals(T) :
        /\ pc = "setup"
        /\ IsLive(Cur, "x")
        /\ LET c == dispatch_real_comparison_mixed(Cur, op, "x", T, nv,
                                                   real_default_prec, realFirst)
           IN  Ran(c.M, [Rec("compare_mixed", op, Null, <<"x">>, <<FALSE>>, 0)
                            EXCEPT !.T = T, !.nv = nv, !.ret = c.ret,
                                   !.str = IF realFirst THEN "a op x" ELSE "x op a"])

\* real_lt(a, b) and real_gt(a, b)
Order ==
    \E fn \in {"real_lt", "real_gt"}, pat \in {<<"x", "y">>, <<"y", "x">>, <<"x", "x">>} :
        /\ pc = "setup"
        /\ objs[pat[1]].alive /\ objs[pat[2]].alive
        /\ Ran(Cur, [Rec(fn, "none", Null, pat, <<FALSE, FALSE>>, 0)
                        EXCEPT !.ret = IF fn = "real_lt"
                                       THEN real_lt(objs[pat[1]], objs[pat[2]])
                                       ELSE real_gt(objs[pat[1]], objs[pat[2]])])


(***************************************************************************)
(* Conversion to the integral types.  A native type is its signedness and  *)
(* its width; the widths run around that of long, so that a type can be    *)
(* narrower than long, long itself, or wider.  bits = 0 is mppp::integer.  *)
(***************************************************************************)
IntegerT == [signed |-> TRUE, bits |-> 0]
NativeConvTypes == {[signed |-> sg, bits |-> w] : sg \in BOOLEAN, w \in 1..(LongBits + 1)}
ConvTypes == NativeConvTypes \cup {IntegerT}
ULong == [signed |-> FALSE, bits |-> LongBits]
Long == [signed |-> TRUE, bits |-> LongBits]

\* nl_max<T>() and nl_min<T>()
nl_max(T) == IF T.signed THEN Pow2(T.bits - 1) - 1 ELSE Pow2(T.bits) - 1
nl_min(T) == IF T.signed THEN -Pow2(T.bits - 1) ELSE 0

\* rounding toward zero to an integer (MPFR_RNDZ), of a finite value
mpfr_get_z(v) ==
    LET t == Twice(v)
    IN  IF t < 0 THEN -((-t) \div 2) ELSE t \div 2

\* sgn() of a value that is not NaN
sgn(v) == IF Twice(v) > 0 THEN 1 ELSE IF Twice(v) < 0 THEN -1 ELSE 0

\* a conversion to unsigned long that rounds downward
mpfr_get_ui_floor(v) ==
    LET c == Twice(v) \div 2
    IN  IF c < 0 THEN [val |-> 0, erange |-> TRUE]
        ELSE IF c > nl_max(ULong) THEN [val |-> nl_max(ULong), erange |-> TRUE]
        ELSE [val |-> c, erange |-> FALSE]

\* mpfr_get_ui(x, MPFR_RNDZ): the rounded value if it fits an unsigned long,
\* else the nearest bound and the erange flag
mpfr_get_ui(v) ==
    LET c == mpfr_get_z(v)
    IN  IF c < 0 THEN [val |-> 0, erange |-> TRUE]
        ELSE IF c > nl_max(ULong) THEN [val |-> nl_max(ULong), erange |-> TRUE]
        ELSE [val |-> c, erange |-> FALSE]

\* mpfr_get_si(x, MPFR_RNDZ)
mpfr_get_si(v) ==
    LET c == mpfr_get_z(v)
    IN  IF c < nl_min(Long) THEN [val |-> nl_min(Long), erange |-> TRUE]
        ELSE IF c > nl_max(Long) THEN [val |-> nl_max(Long), erange |-> TRUE]
        ELSE [val |-> c, erange |-> FALSE]

\* mppp::get(rop, n) for an integer n: rop is written when n is in T's range
integer_get(T, n, rop) ==
    IF n >= nl_min(T) /\ n <= nl_max(T) THEN [ok |-> TRUE, rop |-> n]
    ELSE [ok |-> FALSE, rop |-> rop]

\* real::uint_conversion(rop) on a finite value
uint_conversion(T, v, rop) ==
    LET c == mpfr_get_ui(v)
    IN  IF c.erange
        THEN (IF nl_max(T) > nl_max(ULong) /\ sgn(v) > 0
              THEN integer_get(T, mpfr_get_z(v), rop)
              ELSE [ok |-> FALSE, rop |-> rop])
        ELSE IF c.val <= nl_max(T) THEN [ok |-> TRUE, rop |-> c.val]
        ELSE [ok |-> FALSE, rop |-> rop]

\* real::sint_conversion(rop) on a finite value
sint_conversion(T, v, rop) ==
    LET c == mpfr_get_si(v)
    IN  IF c.erange
        THEN (IF nl_min(T) < nl_min(Long) /\ nl_max(T) > nl_max(Long)
              THEN integer_get(T, mpfr_get_z(v), rop)
              ELSE [ok |-> FALSE, rop |-> rop])
        ELSE IF c.val >= nl_min(T) /\ c.val <= nl_max(T) THEN [ok |-> TRUE, rop |-> c.val]
        ELSE [ok |-> FALSE, rop |-> rop]

\* static_cast<T>(r), real::dispatch_conversion<T>(): the error raised, or the value
dispatch_conversion(T, v) ==
    IF ~number_p(v) THEN [err |-> "domain", val |-> 0]
    ELSE IF T = IntegerT THEN [err |-> "none", val |-> mpfr_get_z(v)]
    ELSE LET c == IF T.signed THEN sint_conversion(T, v, 0) ELSE uint_conversion(T, v, 0)
         IN  IF c.ok THEN [err |-> "none", val |-> c.rop]
             ELSE [err |-> "overflow", val |-> 0]

\* a get that stores what MPFR returned before it looks at the outcome
dispatch_get_stores_first(T, v, rop) ==
    IF ~number_p(v) THEN [ok |-> FALSE, rop |-> rop]
    ELSE IF T = IntegerT THEN [ok |-> TRUE, rop |-> mpfr_get_z(v)]
    ELSE LET c == IF T.signed THEN sint_conversion(T, v, rop) ELSE uint_conversion(T, v, rop)
         IN  [ok |-> c.ok,
              rop |-> IF c.ok THEN c.rop
                      ELSE IF T.signed THEN mpfr_get_si(v).val ELSE mpfr_get_ui(v).val]

\* r.get(rop), real::dispatch_get(rop): the value returned and rop afterwards
dispatch_get(T, v, rop) ==
    IF ~number_p(v) THEN [ok |-> FALSE, rop |-> rop]
    ELSE IF T = IntegerT THEN [ok |-> TRUE, rop |-> mpfr_get_z(v)]
    ELSE IF T.signed THEN sint_conversion(T, v, rop) ELSE uint_conversion(T, v, rop)

\* GMP_NUMB_BITS
GmpNumbBits == 64

\* real_deduce_precision for a native integer of type T, and for an integer
\* n (its size in limbs times GMP_NUMB_BITS)
conv_deduce_precision(T, n) ==
    IF T = IntegerT THEN (IF n = 0 THEN 0 ELSE GmpNumbBits)
    ELSE (IF T.signed THEN T.bits - 1 ELSE T.bits) + (IF T.signed THEN 1 ELSE 0)

\* tmp = x for an integral x, on the function's own real t
scratch_assign_integral(M, T, n, dp) ==
    LET M0 == IF M.objs["t"].alive THEN M ELSE default_construct(M, "t", dp)
        p == IF dp # 0 THEN dp ELSE clamp_mpfr_prec(conv_deduce_precision(T, n))
    IN  mpfr_set(set_prec_impl(M0, "t", p), "t", Fin(n))

\* x op= a for an integral x and a real a: tmp = x, tmp op= a, then x is
\* assigned static_cast<T>(tmp), or for an integer real_in_place_convert(x, tmp)
dispatch_in_place_right(M, f, T, n, a, ca, dp) ==
    LET M1 == scratch_assign_integral(M, T, n, dp)
        M2 == mpfr_nary_op_impl(M1, 0, f, "t", <<"t", a>>, <<FALSE, ca>>)
        tv == M2.objs["t"].val
    IN  IF T = IntegerT
        THEN LET g == dispatch_get(T, tv, n)
             IN  [M |-> M2, err |-> IF g.ok THEN "none" ELSE "domain", n |-> g.rop]
        ELSE LET c == dispatch_conversion(T, tv)
             IN  [M |-> M2, err |-> c.err, n |-> IF c.err = "none" THEN c.val ELSE n]

\* the values an integral object of type T holds before a call
DestVals(T) == IF T = IntegerT THEN (-MaxInit)..MaxInit ELSE nl_min(T)..nl_max(T)

\* static_cast<T>(x)
Convert ==
    \E T \in ConvTypes :
        /\ pc = "setup"
        /\ IsLive(Cur, "x")
        /\ LET c == dispatch_conversion(T, objs["x"].val)
           IN  Ran(Cur, [Rec("convert", "none", Null, <<"x">>, <<FALSE>>, 0)
                            EXCEPT !.ct = T, !.err = c.err, !.out = c.val,
                                   !.threw = c.err # "none"])

\* x.get(n)
Get ==
    \E T \in ConvTypes :
      \E n \in DestVals(T) :
        /\ pc = "setup"
        /\ IsLive(Cur, "x")
        /\ LET g == dispatch_get(T, objs["x"].val, n)
           IN  Ran(Cur, [Rec("get", "none", Null, <<"x">>, <<FALSE>>, 0)
                            EXCEPT !.ct = T, !.n = n, !.ret = g.ok, !.out = g.rop])

\* n op= x, n op= std::move(x)
RightInPlace ==
    \E f \in BinFuncs, T \in ConvTypes, ca \in BOOLEAN :
      \E n \in DestVals(T) :
        /\ pc = "setup"
        /\ IsLive(Cur, "x")
        /\ objs["x"].val.k # "half"
        /\ LET M1 == scratch_assign_integral(Cur, T, n, real_default_prec)
           IN  PrimDefined(f, <<M1.objs["t"].val, objs["x"].val>>)
        /\ LET c == dispatch_in_place_right(Cur, f, T, n, "x", ca, real_default_prec)
           IN  Ran(c.M, [Rec("right_in_place", f, "t", <<"t", "x">>, <<FALSE, ca>>, 0)
                            EXCEPT !.ct = T, !.n = n, !.err = c.err, !.out = c.n,
                                   !.threw = c.err # "none"])

\* a mixed binary operator that forwards its own real as an rvalue
dispatch_binary_scratch_forwarded(M, f, a, ca, T, nv, dp, realFirst) ==
    LET M1 == scratch_assign(M, T, nv, dp)
    IN  IF realFirst
        THEN mpfr_nary_op_return_impl(M1, 0, f, "r", <<a, "t">>, <<ca, TRUE>>)
        ELSE mpfr_nary_op_return_impl(M1, 0, f, "r", <<"t", a>>, <<TRUE, ca>>)

\* dispatch_binary_add(a, x) and (x, a) and their siblings, on any call: tmp = x,
\* then the returning form with tmp as an lvalue
dispatch_binary_scratch(M, f, a, ca, T, nv, dp, realFirst) ==
    LET M1 == scratch_assign(M, T, nv, dp)
    IN  IF realFirst
        THEN mpfr_nary_op_return_impl(M1, 0, f, "r", <<a, "t">>, <<ca, FALSE>>)
        ELSE mpfr_nary_op_return_impl(M1, 0, f, "r", <<"t", a>>, <<FALSE, ca>>)

\* dispatch_in_place_add(a, x) and its siblings: tmp = x, then a op= tmp
dispatch_in_place_scratch(M, f, a, T, nv, dp) ==
    dispatch_in_place(scratch_assign(M, T, nv, dp), f, a, "t", FALSE)

\* real r = x op v, real r = v op x, x an lvalue or an rvalue
ScratchBinary ==
    \E f \in BinFuncs, T \in MixedTypes, ca \in BOOLEAN, realFirst \in BOOLEAN :
      \E nv \in MixedVals(T) :
        /\ pc = "setup"
        /\ IsLive(Cur, "x")
        /\ objs["x"].val.k # "half"
        /\ LET tv == scratch_assign(Cur, T, nv, real_default_prec).objs["t"].val
           IN  PrimDefined(f, IF realFirst THEN <<objs["x"].val, tv>>
                              ELSE <<tv, objs["x"].val>>)
        /\ Ran(dispatch_binary_scratch(Cur, f, "x", ca, T, nv, real_default_prec, realFirst),
               [Rec("scratch_binary", f, "r",
                    IF realFirst THEN <<"x", "t">> ELSE <<"t", "x">>,
                    IF realFirst THEN <<ca, FALSE>> ELSE <<FALSE, ca>>, 0)
                   EXCEPT !.T = T, !.nv = nv])

\* x op= v
ScratchInPlace ==
    \E f \in BinFuncs, T \in MixedTypes :
      \E nv \in MixedVals(T) :
        /\ pc = "setup"
        /\ IsLive(Cur, "x")
        /\ objs["x"].val.k # "half"
        /\ LET tv == scratch_assign(Cur, T, nv, real_default_prec).objs["t"].val
           IN  PrimDefined(f, <<objs["x"].val, tv>>)
        /\ Ran(dispatch_in_place_scratch(Cur, f, "x", T, nv, real_default_prec),
               [Rec("scratch_in_place", f, "x", <<"x", "t">>, <<FALSE, FALSE>>, 0)
                   EXCEPT !.T = T, !.nv = nv])

\* the relational operators
NextCompare ==
    \/ Compare
    \/ CompareMixed

SpecCompare == InitValue /\ [][NextCompare]_vars

\* the ordering predicates
SpecOrder == InitPair /\ [][Order]_vars

\* conversions out of a real
NextConvert ==
    \/ Convert
    \/ Get
    \/ RightInPlace

SpecConvert == InitScratch /\ [][NextConvert]_vars

\* the operations that go through the function-local real
NextValue ==
    \/ ScratchBinary
    \/ ScratchInPlace
    \/ CompareMixed
    \/ RightInPlace

SpecValue == InitScratch /\ [][NextValue]_vars


(***************************************************************************)
(* Properties.  `last.pre` holds the objects as the operation found them.  *)
(***************************************************************************)
Pre(o) == last.pre[o]
Arg(i) == last.args[i]
Ran1(ops) == pc = "done" /\ last.op \in ops
InPlaceOps == {"nary", "unary", "compound"}
ReturnOps == {"binary_return", "unary_return"}

SetMax(S) == CHOOSE m \in S : \A n \in S : m >= n

\* max(min_prec, precision of every operand), from the operands as they were
TargetPrec ==
    SetMax({Pre(Arg(i)).prec : i \in DOMAIN last.args} \cup {last.min_prec})

\* f applied to the operands' values as they were, stored at the target precision
Expected == Prim(last.f, [i \in DOMAIN last.args |-> Pre(Arg(i)).val], TargetPrec)

\* the donatable operand of largest precision, the first one on ties (0: none)
BestDonorIdx ==
    LET D == {i \in DOMAIN last.args : last.cats[i]}
    IN  IF D = {} THEN 0
        ELSE CHOOSE i \in D : \A j \in D :
                 \/ Pre(Arg(i)).prec > Pre(Arg(j)).prec
                 \/ (Pre(Arg(i)).prec = Pre(Arg(j)).prec /\ i <= j)

LiveNow(o) == objs[o].alive /\ objs[o].d # 0
MovedFromNow(o) == objs[o].alive /\ objs[o].d = 0
Untouched(o) == objs[o] = Pre(o)

\* C1: the real returned by a + b, a - b, a * b, a / b, each operand an lvalue
\* or an rvalue, is live and has precision max(p_a, p_b)
C1_ReturnPrecision ==
    Ran1({"binary_return"}) =>
        /\ LiveNow("r")
        /\ objs["r"].prec = c_max(Pre(Arg(1)).prec, Pre(Arg(2)).prec)

C1_Witness ==
    /\ Ran1({"binary_return"})
    /\ last.f = "div"
    /\ last.cats = <<TRUE, FALSE>>
    /\ Pre(Arg(1)).prec < Pre(Arg(2)).prec
    /\ objs["r"].prec = Pre(Arg(2)).prec

\* C2 as stated: after std::move(a) op b, a is moved-from whatever the precisions
C2_Original ==
    (Ran1({"binary_return"}) /\ last.cats[1]) => MovedFromNow(Arg(1))

\* C2 amended: after std::move(a) op b, a is moved-from exactly when
\* precision(a) >= precision(b); otherwise a is live and keeps its storage,
\* value and precision
C2_MovedFromIffLargeEnough ==
    (Ran1({"binary_return"}) /\ last.cats[1]) =>
        IF Pre(Arg(1)).prec >= Pre(Arg(2)).prec
        THEN MovedFromNow(Arg(1))
        ELSE LiveNow(Arg(1)) /\ Untouched(Arg(1))

C2_Witness ==
    /\ Ran1({"binary_return"})
    /\ last.cats = <<TRUE, FALSE>>
    /\ Arg(1) # Arg(2)
    /\ Pre(Arg(1)).prec > Pre(Arg(2)).prec
    /\ MovedFromNow(Arg(1))
    /\ objs["r"].d = Pre(Arg(1)).d

\* C3: the result of an n-ary operation, in-place or returned, is f of the
\* operands' values as they were at the call, at the target precision, whatever
\* the categories of the operands, whichever objects rop is the same as, and
\* whichever storage the code computed into
C3_ResultIndependentOfStorage ==
    /\ Ran1(InPlaceOps) =>
           /\ objs[last.rop].val = Expected
           /\ objs[last.rop].prec = TargetPrec
    /\ Ran1(ReturnOps) =>
           /\ objs["r"].val = Expected
           /\ objs["r"].prec = TargetPrec

C3_Witness ==
    /\ Ran1({"nary"})
    /\ last.f = "sub"
    /\ last.rop = Arg(1)
    /\ Pre(last.rop).prec < TargetPrec
    /\ last.st.br = "grow"
    /\ Pre(Arg(1)).val = Fin(2)
    /\ Pre(Arg(2)).val = Fin(1)
    /\ objs[last.rop].val = Fin(1)

\* C4: after the in-place form, precision(rop) = max(min_prec, precision of
\* every operand), whatever rop's precision was and whether or not rop is an operand
C4_InPlacePrecision ==
    Ran1(InPlaceOps) => LiveNow(last.rop) /\ objs[last.rop].prec = TargetPrec

C4_Witness ==
    /\ Ran1({"unary"})
    /\ last.min_prec = 0
    /\ last.rop # Arg(1)
    /\ Pre(last.rop).prec > Pre(Arg(1)).prec
    /\ objs[last.rop].prec = Pre(Arg(1)).prec

\* C5: in the in-place form, when precision(rop) < target_prec and the best
\* donor's precision is target_prec, rop ends with the result at target_prec and
\* the donor is live with the value, the precision and the storage rop had
C5_DonorHoldsOldRop ==
    (/\ Ran1(InPlaceOps)
     /\ Pre(last.rop).prec < TargetPrec
     /\ BestDonorIdx # 0
     /\ Pre(Arg(BestDonorIdx)).prec = TargetPrec) =>
        LET donor == Arg(BestDonorIdx)
        IN  /\ objs[last.rop].prec = TargetPrec
            /\ objs[last.rop].val = Expected
            /\ LiveNow(donor)
            /\ objs[donor].val = Pre(last.rop).val
            /\ objs[donor].prec = Pre(last.rop).prec
            /\ objs[donor].d = Pre(last.rop).d
            /\ objs[last.rop].d = Pre(donor).d

C5_Witness ==
    /\ Ran1({"compound"})
    /\ last.f = "add"
    /\ last.cats[2]
    /\ Arg(2) # last.rop
    /\ Pre(last.rop).prec < Pre(Arg(2)).prec
    /\ Pre(last.rop).val = Fin(1)
    /\ Pre(Arg(2)).val = Fin(2)
    /\ objs[last.rop].val = Fin(3)
    /\ objs[Arg(2)].val = Fin(1)

\* C6: each significand buffer has at most one owner and is released exactly
\* once: no two reals share storage, every live real's storage is allocated,
\* no allocated buffer is without an owner, nothing is released that is not
\* allocated (a moved-from real releases nothing), nothing is left at scope exit
C6_ExclusiveOwnership ==
    /\ \A a \in AllObjs, b \in AllObjs :
           (a # b /\ LiveNow(a) /\ LiveNow(b)) => objs[a].d # objs[b].d
    /\ \A a \in AllObjs : LiveNow(a) => objs[a].d \in heap
    /\ \A b \in heap : \E a \in AllObjs : LiveNow(a) /\ objs[a].d = b
    /\ ~last.st.badfree
    /\ pc = "exit" => heap = {}

\* the scope held x alone: after real r = std::move(x) op x-or-rvalue the exit
\* destroys two objects and releases one buffer
C6_Witness ==
    /\ pc = "exit"
    /\ last.op = "binary_return"
    /\ last.st.free = 1
    /\ heap = {}

\* C7: every live real has a precision within [real_prec_min(), real_prec_max()]
C7_PrecisionInBounds ==
    \A o \in AllObjs : LiveNow(o) => real_prec_check(objs[o].prec)

C7_Witness ==
    /\ Ran1({"nary"})
    /\ real_default_prec = real_prec_min
    /\ Pre(last.rop).prec = real_prec_min
    /\ objs[last.rop].prec = real_prec_max
    /\ \E o \in Objs : LiveNow(o) /\ objs[o].prec = real_prec_min

AssignOps == {"copy_assign", "move_assign", "generic_assign"}

\* C8 as stated: any assignment to a moved-from real is safe and leaves it
\* live, with allocated storage and a valid precision
C8_Original ==
    (pc \in {"done", "crashed"} /\ last.op \in AssignOps /\ Pre(last.rop).alive
        /\ Pre(last.rop).d = 0) =>
        /\ pc = "done"
        /\ ~last.st.ub
        /\ LiveNow(last.rop)
        /\ objs[last.rop].d \in heap
        /\ real_prec_check(objs[last.rop].prec)

\* C8 amended: copy assignment and move assignment from a live real are safe on
\* a moved-from real and leave it live, with allocated storage and a valid precision
C8_CopyMoveAssignRevive ==
    (pc \in {"done", "crashed"} /\ last.op \in {"copy_assign", "move_assign"}
        /\ Pre(last.rop).alive /\ Pre(last.rop).d = 0) =>
        /\ pc = "done"
        /\ ~last.st.ub
        /\ LiveNow(last.rop)
        /\ objs[last.rop].d \in heap
        /\ real_prec_check(objs[last.rop].prec)
        /\ objs[last.rop].prec = Pre(Arg(1)).prec
        /\ objs[last.rop].val = Pre(Arg(1)).val

C8_Witness ==
    /\ Ran1({"copy_assign"})
    /\ Pre(last.rop).alive
    /\ Pre(last.rop).d = 0
    /\ LiveNow(last.rop)
    /\ LiveNow(Arg(1))
    /\ objs[last.rop].val = Fin(2)

\* C9 as stated: a + b + c on lvalues allocates at most once, whatever the precisions
C9_Original == Ran1({"chain"}) => last.st.alloc <= 1

\* C9 amended: a + b + c on lvalues allocates once when precision(c) <=
\* max(precision(a), precision(b)), and twice otherwise
C9_ChainAllocations ==
    Ran1({"chain"}) =>
        last.st.alloc =
            IF Pre(Arg(3)).prec <= c_max(Pre(Arg(1)).prec, Pre(Arg(2)).prec) THEN 1 ELSE 2

C9_Witness ==
    /\ Ran1({"chain"})
    /\ Arg(1) # Arg(2) /\ Arg(2) # Arg(3) /\ Arg(1) # Arg(3)
    /\ Pre(Arg(3)).prec < Pre(Arg(1)).prec
    /\ last.st.alloc = 1
    /\ objs["r"].val = Fin(3)

\* C10: for precision(a) >= precision(b), a op= b (b an lvalue or an rvalue)
\* allocates nothing, changes no precision and swaps nothing: a keeps its storage
\* and its precision, and b (when it is another object) is left as it was
C10_CompoundNoAllocation ==
    (Ran1({"compound"}) /\ Pre(Arg(1)).prec >= Pre(Arg(2)).prec) =>
        /\ last.st.alloc = 0
        /\ last.st.realloc = 0
        /\ last.st.swap = 0
        /\ last.st.free = 0
        /\ heap = {Pre(o).d : o \in {q \in AllObjs : Pre(q).alive /\ Pre(q).d # 0}}
        /\ objs[Arg(1)].d = Pre(Arg(1)).d
        /\ objs[Arg(1)].prec = Pre(Arg(1)).prec
        /\ Arg(2) # Arg(1) => Untouched(Arg(2))

C10_Witness ==
    /\ Ran1({"compound"})
    /\ last.cats[2]
    /\ Arg(2) # Arg(1)
    /\ Pre(Arg(1)).prec = Pre(Arg(2)).prec
    /\ Pre(Arg(2)).val = Fin(1)
    /\ objs[Arg(1)].val = Fin(2)

(***************************************************************************)
(* Properties of the precision policy.                                     *)
(***************************************************************************)
\* a precision brought into [real_prec_min, real_prec_max]
Clamped(d) ==
    IF d < real_prec_min THEN real_prec_min
    ELSE IF d > real_prec_max THEN real_prec_max ELSE d

\* the precision a native value of type T converts at: the default precision
\* if it is set, its clamped deduced precision otherwise
ConvPrec(T) ==
    IF real_get_default_prec # 0 THEN real_get_default_prec
    ELSE Clamped(real_deduce_precision(T))

InBounds(p) == real_prec_min <= p /\ p <= real_prec_max

\* C11: real r{x, p} from a native x: a nonzero p within bounds is r's
\* precision, a nonzero p out of bounds throws std::invalid_argument (and there
\* is no r); with p = 0 the precision is the default precision if that is
\* nonzero and clamp(deduce_precision(x)) otherwise
C11_InitPrecision ==
    Ran1({"construct"}) =>
        IF last.p # 0 /\ ~InBounds(last.p)
        THEN last.threw /\ ~objs["r"].alive /\ heap = {}
        ELSE /\ ~last.threw
             /\ LiveNow("r")
             /\ objs["r"].prec = IF last.p # 0 THEN last.p ELSE ConvPrec(last.T)

C11_Witness ==
    /\ Ran1({"construct"})
    /\ last.p = real_prec_min
    /\ real_get_default_prec = real_prec_max
    /\ last.T = "int"
    /\ objs["r"].prec = real_prec_min

\* C13: a op x and x op a, a a real and x a native value, have precision
\* max(precision(a), P(x)), P(x) the default precision if set and
\* clamp(deduce_precision(x)) otherwise
C13_MixedPrecision ==
    Ran1({"mixed"}) =>
        /\ LiveNow("r")
        /\ objs["r"].prec = c_max(Pre(Arg(1)).prec, ConvPrec(last.T))

\* the default precision above both the real operand's and the deduced one
C13_Witness ==
    /\ Ran1({"mixed"})
    /\ last.str = "x op a"
    /\ last.T = "bool"
    /\ real_get_default_prec = real_prec_max
    /\ Pre(Arg(1)).prec < real_prec_max
    /\ objs["r"].prec = real_prec_max

\* C14: after r = x from a native x (r holding storage), precision(r) is the
\* default precision if set and clamp(deduce_precision(x)) otherwise, whatever
\* r's precision was
C14_AssignResetsPrecision ==
    (Ran1({"generic_assign"}) /\ Pre(last.rop).d # 0) =>
        /\ LiveNow(last.rop)
        /\ objs[last.rop].prec = ConvPrec(last.f)

C14_Witness ==
    /\ Ran1({"generic_assign"})
    /\ last.f = "bool"
    /\ real_get_default_prec = 0
    /\ Pre(last.rop).prec = real_prec_max
    /\ objs[last.rop].prec = real_prec_min

\* C16: real_set_default_prec(p) throws std::invalid_argument exactly when
\* p # 0 and p is outside [real_prec_min, real_prec_max], leaving the stored
\* value; in every other case, p = 0 included, the stored value becomes p
C16_SetDefaultPrec ==
    Ran1({"set_default_prec"}) =>
        /\ last.threw <=> (last.p # 0 /\ ~InBounds(last.p))
        /\ real_get_default_prec = IF last.threw THEN last.prec ELSE last.p

C16_Witness ==
    /\ Ran1({"set_default_prec"})
    /\ last.p = real_prec_max + 1
    /\ last.threw
    /\ last.prec = real_prec_min
    /\ real_get_default_prec = real_prec_min

\* C17: after real_set_default_prec(p); real_reset_default_prec();
\* real_get_default_prec() is 0 and a construction or an assignment without a
\* precision uses the (clamped) deduced precision of its source, not p
C17_ResetRestoresDeduction ==
    Ran1({"set_reset_construct", "set_reset_assign"}) =>
        /\ real_get_default_prec = 0
        /\ LiveNow(last.rop)
        /\ objs[last.rop].prec = Clamped(real_deduce_precision(last.T))

C17_Witness ==
    /\ Ran1({"set_reset_assign"})
    /\ last.p = real_prec_max
    /\ last.prec = real_prec_max
    /\ last.T = "bool"
    /\ Pre(last.rop).prec = real_prec_max
    /\ objs[last.rop].prec = real_prec_min
    /\ real_get_default_prec = 0

\* C12 as stated: a native integer type of width W deduces W if unsigned and
\* W + 1 if signed
C12_Original ==
    (pc = "resolved" /\ last.T # "bool") =>
        last.deduced = type_width(last.T) + (IF is_signed(last.T) THEN 1 ELSE 0)

\* C12 amended: a native integer type of width W deduces W, signed or
\* unsigned: the digits of a signed type are W - 1 and one bit is added for
\* the sign, so a 32-bit signed integer deduces 32
C12_DeducedIsWidth ==
    (pc = "resolved" /\ last.T # "bool") => last.deduced = type_width(last.T)

C12_Witness ==
    /\ pc = "resolved"
    /\ last.T = "int"
    /\ is_signed(last.T)
    /\ last.deduced = IntDigits + 1
    /\ last.deduced = 32

SetOps == {"set_real", "set_native", "set_string", "set_nan", "set_inf", "set_zero"}

\* C15: set(value) from a real, from a native value or from a string (also
\* when the string does not parse and the call throws), set_nan, set_inf and
\* set_zero leave the receiver's precision, and its storage, as they were
C15_SetKeepsPrecision ==
    Ran1(SetOps) =>
        /\ LiveNow(last.rop)
        /\ objs[last.rop].prec = Pre(last.rop).prec
        /\ objs[last.rop].d = Pre(last.rop).d
        /\ heap = {Pre(o).d : o \in {q \in AllObjs : Pre(q).alive /\ Pre(q).d # 0}}

\* a string that does not parse, on a receiver whose precision is not the default one
C15_Witness ==
    /\ Ran1({"set_string"})
    /\ last.str = "2"
    /\ last.base = 2
    /\ last.threw
    /\ real_get_default_prec = real_prec_min
    /\ Pre(last.rop).prec = real_prec_max
    /\ Pre(last.rop).val.k = "fin"
    /\ objs[last.rop].val = NaN
    /\ objs[last.rop].prec = real_prec_max

NoDeductionOps == {"string_construct", "special_construct", "real_constant", "string_assign"}

\* C19: construction from a string, the special-value constructor, a real
\* constant and assignment from a string throw std::invalid_argument whenever
\* no nonzero precision is passed and the default precision is 0; nothing is
\* constructed or changed
C19_NoPrecisionThrows ==
    (Ran1(NoDeductionOps) /\ last.p = 0 /\ real_get_default_prec = 0) =>
        /\ last.threw
        /\ objs = last.pre
        /\ last.st.alloc = 0
        /\ last.st.realloc = 0

C19_Witness ==
    /\ Ran1({"string_construct"})
    /\ last.str = "1"
    /\ last.base = 10
    /\ last.p = 0
    /\ real_get_default_prec = 0
    /\ last.threw
    /\ ~objs["r"].alive

BaseOutOfRange(b) == ~(b = 0 \/ (2 <= b /\ b <= 62))

\* C20: when construction from a string fails - base neither 0 nor in [2, 62],
\* no precision available, or a string that does not parse -
\* std::invalid_argument is thrown, there is no object, and no storage stays
\* allocated: a bad base or precision is rejected before any allocation, a
\* parse failure releases the one allocation before the throw
C20_StringCtorFailureClean ==
    Ran1({"string_construct"}) =>
        LET noPrec == last.p = 0 /\ real_get_default_prec = 0
            early == BaseOutOfRange(last.base) \/ noPrec
            fails == early \/ ~mpfr_set_str_ok(last.str, last.base)
        IN  /\ fails => (last.threw /\ ~objs["r"].alive /\ heap = {})
            /\ early => (last.st.alloc = 0 /\ last.st.free = 0)
            /\ (fails /\ ~early /\ InBounds(IF last.p # 0 THEN last.p
                                             ELSE real_get_default_prec)) =>
                   (last.st.alloc = 1 /\ last.st.free = 1 /\ ~last.st.badfree)

C20_Witness ==
    /\ Ran1({"string_construct"})
    /\ last.str = "2"
    /\ last.base = 2
    /\ last.p = real_prec_max
    /\ last.threw
    /\ last.st.alloc = 1
    /\ last.st.free = 1
    /\ heap = {}

\* C18: under every interleaving of real_set_default_prec,
\* real_reset_default_prec and real_get_default_prec calls of several threads,
\* a read returns 0 or an argument of a set call that did not throw (so 0 or a
\* valid precision), and never an argument that a set call rejected
C18_ReadsAreStoredValues ==
    \A t \in Threads : \A r \in thr.reads[t] :
        /\ r = 0 \/ r \in thr.accepted
        /\ r = 0 \/ InBounds(r)
        /\ r \notin thr.rejected

\* t1 only reads, and sees the value change under it, while t2 has a call
\* rejected and a call stored
C18_Witness ==
    /\ thr.reads["t1"] = {0, real_prec_max}
    /\ thr.calls["t1"] = MaxCalls
    /\ thr.calls["t2"] = MaxCalls
    /\ thr.rejected = {real_prec_max + 1}
    /\ thr.accepted = {real_prec_max}

(***************************************************************************)
(* Comparison, ordering and conversion.                                    *)
(***************************************************************************)
\* the values of the two operands of a comparison, as it found them
CmpVals ==
    IF last.op = "compare" THEN <<Pre(Arg(1)).val, Pre(Arg(2)).val>>
    ELSE IF last.str = "a op x" THEN <<Pre("x").val, last.nv>>
    ELSE <<last.nv, Pre("x").val>>

Rank(o) == IF o.d = 0 THEN 2 ELSE IF o.val.k = "nan" THEN 1 ELSE 0
Below(a, b) ==
    \/ Rank(a) < Rank(b)
    \/ Rank(a) = 0 /\ Rank(b) = 0 /\ Twice(a.val) < Twice(b.val)
Incomparable(a, b) == ~real_lt(a, b) /\ ~real_lt(b, a)

\* C22: real_lt(a, b) holds exactly when a is below b in the order numbers <
\* NaN < moved-from (numbers by value, the NaNs equivalent, the moved-from
\* objects equivalent); real_lt is irreflexive, asymmetric and transitive and
\* its incomparability is transitive; real_gt(a, b) is real_lt(b, a)
C22_RealLtOrder ==
    Ran1({"real_lt", "real_gt"}) =>
        LET a == Pre(Arg(1))
            b == Pre(Arg(2))
        IN  /\ last.op = "real_gt" => last.ret = real_lt(b, a)
            /\ last.op = "real_lt" =>
                 /\ last.ret = Below(a, b)
                 /\ ~real_lt(a, a)
                 /\ last.ret => ~real_lt(b, a)
                 /\ \A c \in RealStates(3) :
                      /\ (last.ret /\ real_lt(b, c)) => real_lt(a, c)
                      /\ (Incomparable(a, b) /\ Incomparable(b, c)) => Incomparable(a, c)

C22_Witness ==
    /\ Ran1({"real_lt"})
    /\ Pre(Arg(1)).d # 0
    /\ nan_p(Pre(Arg(1)).val)
    /\ Pre(Arg(2)).d = 0
    /\ last.ret

\* the integer next to a finite value on the side of zero
TowardZero(v) ==
    CHOOSE i \in (-Pow2(EMax))..Pow2(EMax) :
        /\ Abs(2 * i) <= Abs(Twice(v))
        /\ Abs(Twice(v)) - Abs(2 * i) < 2
        /\ i # 0 => Sgn(i) = Sgn(Twice(v))

InRange(T, n) == T = IntegerT \/ (n >= nl_min(T) /\ n <= nl_max(T))

Steals == BestDonorIdx # 0 /\ Pre(Arg(BestDonorIdx)).prec = TargetPrec

\* the objects that the call left moved-from
NewlyMovedFrom == {o \in AllObjs : MovedFromNow(o) /\ Pre(o).d # 0}

\* C25: in the returning form an operand is left moved-from exactly when it
\* is the best donor and its precision is the target precision; otherwise the
\* result is freshly allocated at the target precision and every operand keeps
\* its storage, value and precision; at most one operand is left moved-from
C25_ReturnStealsIffDonorAtTarget ==
    Ran1(ReturnOps) =>
        /\ \A i \in DOMAIN last.args :
             MovedFromNow(Arg(i)) <=> (Steals /\ Arg(i) = Arg(BestDonorIdx))
        /\ Steals => objs["r"].d = Pre(Arg(BestDonorIdx)).d
        /\ ~Steals =>
             /\ last.st.alloc = 1
             /\ objs["r"].d \notin {Pre(o).d : o \in AllObjs}
             /\ objs["r"].prec = TargetPrec
             /\ \A i \in DOMAIN last.args : Untouched(Arg(i))
        /\ Cardinality(NewlyMovedFrom) <= 1

C25_Witness ==
    /\ Ran1({"binary_return"})
    /\ last.cats = <<TRUE, TRUE>>
    /\ Arg(1) # Arg(2)
    /\ Pre(Arg(1)).prec < Pre(Arg(2)).prec
    /\ MovedFromNow(Arg(2))
    /\ Untouched(Arg(1))

\* the pair the donor search of the code returns on the operands as they were
SearchPair == nary_pair(Machine(last.pre, {}), last.min_prec, last.args, last.cats)

\* the operand objects that the call passes only as lvalues or const
OnlyBorrowed ==
    {Arg(i) : i \in DOMAIN last.args} \ {Arg(i) : i \in {j \in DOMAIN last.args : last.cats[j]}}

\* C26: the donor search returns, among the operands passed as non-const
\* rvalues, the one of largest precision, the first one on equal precisions;
\* an operand passed otherwise is never taken from, and its precision counts
\* in the target precision
C26_DonorSearch ==
    Ran1(InPlaceOps \cup ReturnOps) =>
        /\ SearchPair.first = (IF BestDonorIdx = 0 THEN Null ELSE Arg(BestDonorIdx))
        /\ SearchPair.second = TargetPrec
        /\ last.st.br = "steal" =>
             /\ BestDonorIdx # 0
             /\ objs[IF last.op \in ReturnOps THEN "r" ELSE last.rop].d
                    = Pre(Arg(BestDonorIdx)).d
        /\ \A o \in OnlyBorrowed :
             /\ o # last.rop => Untouched(o)
             /\ TargetPrec >= Pre(o).prec

C26_Witness ==
    /\ Ran1({"binary_return"})
    /\ last.cats = <<TRUE, TRUE>>
    /\ Arg(1) # Arg(2)
    /\ Pre(Arg(1)).prec = Pre(Arg(2)).prec
    /\ objs["r"].d = Pre(Arg(1)).d
    /\ Untouched(Arg(2))

\* C27: when the in-place form resets rop destructively (rop has a larger
\* precision than the target), rop is none of the operands, so every operand
\* still has its value when f reads it: the operands are as they were and rop
\* holds f of their values
C27_DestructiveBranchNoAlias ==
    (Ran1(InPlaceOps) /\ (Pre(last.rop).prec > TargetPrec \/ last.st.br = "shrink")) =>
        /\ last.st.br = "shrink"
        /\ Pre(last.rop).prec > TargetPrec
        /\ \A i \in DOMAIN last.args : Arg(i) # last.rop /\ Untouched(Arg(i))
        /\ objs[last.rop].val = Expected
        /\ ~last.st.ub

C27_Witness ==
    /\ Ran1({"nary"})
    /\ last.st.br = "shrink"
    /\ Pre(last.rop).val = Fin(1)
    /\ Pre(Arg(1)).val = Fin(2)
    /\ last.cats = <<TRUE, TRUE>>
    /\ objs[last.rop].prec < Pre(last.rop).prec

(***************************************************************************)
(* The function-local real of the mixed operations.                        *)
(***************************************************************************)
ScratchOps == {"scratch_binary", "scratch_in_place", "compare_mixed", "right_in_place"}

\* C28: the real that a mixed operator (binary, in-place, comparison) keeps
\* for its native operand is live after every call, on the function's first
\* call and on every later one: it owns allocated storage that no other object
\* owns, also after it has exchanged storage with a donor, and no call works
\* on a null significand
C28_ScratchStaysLive ==
    Ran1(ScratchOps) =>
        /\ LiveNow("t")
        /\ objs["t"].d \in heap
        /\ \A o \in AllObjs \ {"t"} : objs[o].d # objs["t"].d
        /\ ~last.st.ub

C28_Witness ==
    /\ Ran1({"right_in_place"})
    /\ Pre("t").alive
    /\ last.st.br = "steal"
    /\ objs["t"].d = Pre("x").d
    /\ objs["x"].d = Pre("t").d
    /\ LiveNow("t")

(***************************************************************************)
(* Constructions and assignments under concurrent stores.                  *)
(***************************************************************************)
\* the values that the default precision has had
PastDefaults == {thr.mo[i] : i \in DOMAIN thr.mo}

\* the precision that an operation of kind last.f takes under the default
\* precision v (0: it throws)
PrecUnder(v) ==
    CASE last.f = "default" -> IF v # 0 THEN v ELSE real_prec_min
      [] last.f \in {"generic", "assign"} -> IF v # 0 THEN v
                                             ELSE Clamped(real_deduce_precision(last.T))
      [] OTHER -> v

\* C29: a construction or an assignment running while other threads set and
\* reset the default precision gives its real one valid precision, the one
\* that belongs to a single value the default precision has had (that value,
\* or the deduced or minimum precision when the value is 0), never 0; or it
\* throws, which only the operations that need a default precision do and only
\* when the default precision has been 0, and the real is then as it was
C29_OneReadOfDefaultPrecision ==
    Ran1({"thread_op"}) =>
        IF last.threw
        THEN /\ last.f \in {"string", "special", "constant", "string_assign"}
             /\ 0 \in PastDefaults
             /\ objs = last.pre
             /\ heap = {last.pre[o].d : o \in AllObjs} \ {0}
        ELSE /\ LiveNow("x")
             /\ InBounds(objs["x"].prec)
             /\ \E v \in PastDefaults : objs["x"].prec = PrecUnder(v)
             /\ ~last.st.ub

\* the thread constructs with a value that another thread has already replaced
C29_Witness ==
    /\ Ran1({"thread_op"})
    /\ last.f = "default"
    /\ Len(thr.mo) = 3
    /\ thr.mo[2] = real_prec_max
    /\ thr.mo[3] = 0
    /\ objs["x"].prec = real_prec_max

(***************************************************************************)
(* Rejected precisions.                                                    *)
(***************************************************************************)
\* a step that is a call of set_prec, prec_round, real_set_default_prec or an
\* assignment from a string
PrecCall ==
    /\ pc = "setup"
    /\ pc' = "done"
    /\ last'.op \in {"set_prec", "prec_round", "set_default_prec", "string_assign"}

\* the call is one that the claim is about, and it threw
Rejected ==
    /\ last'.threw
    /\ last'.op = "string_assign" => real_default_prec = 0

\* C30: set_prec and prec_round throw exactly for a precision out of
\* [real_prec_min, real_prec_max], real_set_default_prec exactly for a nonzero
\* one out of it, an assignment from a string whenever no default precision is
\* set; a call that throws so leaves every real (value, precision, storage)
\* and the default precision as they were
C30_RejectedLeavesStateAlone ==
    [][PrecCall =>
        /\ last'.op \in {"set_prec", "prec_round"} =>
             (last'.threw <=> ~InBounds(last'.min_prec))
        /\ last'.op = "set_default_prec" =>
             (last'.threw <=> (last'.p # 0 /\ ~InBounds(last'.p)))
        /\ (last'.op = "string_assign" /\ real_default_prec = 0) => last'.threw
        /\ Rejected =>
             /\ objs' = objs
             /\ heap' = heap
             /\ real_default_prec' = real_default_prec
             /\ last'.st = NoStats]_vars

C30_Witness ==
    /\ Ran1({"string_assign"})
    /\ last.threw
    /\ last.str = "1"
    /\ real_default_prec = 0
    /\ Pre("x").val = Fin(2)
    /\ objs["x"] = Pre("x")

====
